---- MODULE Spec2Model ----
(***************************************************************************)
(* Dataset assembly of dannce/engine/run/data.py: sample identifiers,      *)
(* train/valid partition, the social big-volume and joint-volume policies, *)
(* centre-of-mass (COM) augmentation and the examination of the npy volume *)
(* cache.                                                                  *)
(*                                                                         *)
(* Conventions.                                                            *)
(*  - A Python str is a sequence of one-character strings, so that         *)
(*    concatenation, split('_') and sorted() are computed, not assumed.    *)
(*  - A float is <<>> (NaN) or <<v>> with v an integer number of quarter   *)
(*    units (fixed point, two fractional bits).  The lengths the model     *)
(*    feeds in are whole numbers (multiples of 4), so that the halvings    *)
(*    the code performs, (vmax - vmin) / 2, threshold / 2 and              *)
(*    (anchor1 + anchor2) / 2, are exact.  COM vectors are never NaN and   *)
(*    are kept as plain integers.                                          *)
(*  - dist <= threshold is decided on the squares; float rounding of       *)
(*    np.sqrt is not modelled.                                             *)
(*  - np.random is a seeded generator: a fixed cyclic stream of draws and  *)
(*    a position in it; the seed is an input.                              *)
(*  - A Python dict is a function; None is the record NoneVal.             *)
(***************************************************************************)
EXTENDS Integers, Sequences, FiniteSets, TLC

\* ------------------------------------------------------------------ bounds
\* frames annotated per experiment
NumFrames == 2
\* largest COM_aug_iters tried
MaxAugIters == 2
\* keypoints per animal (n_channels_out as configured)
NKeypoints == 2

\* ----------------------------------------------------------------- strings
DigitChars == <<"0", "1", "2", "3", "4", "5", "6", "7", "8", "9">>

RECURSIVE Str(_)
\* str(n) for a non-negative integer
Str(n) == IF n < 10 THEN <<DigitChars[n + 1]>>
          ELSE Str(n \div 10) \o <<DigitChars[(n % 10) + 1]>>

\* code point of a character (only the order matters)
Ord(c) ==
    CASE c = "-" -> 45
      [] c = "0" -> 48 [] c = "1" -> 49 [] c = "2" -> 50 [] c = "3" -> 51
      [] c = "4" -> 52 [] c = "5" -> 53 [] c = "6" -> 54 [] c = "7" -> 55
      [] c = "8" -> 56 [] c = "9" -> 57
      [] c = "_" -> 95
      [] c = "a" -> 97 [] c = "c" -> 99 [] c = "g" -> 103 [] c = "m" -> 109
      [] c = "o" -> 111 [] c = "u" -> 117

RECURSIVE StrLess(_, _)
\* s < t for Python strings (lexicographic by code point)
StrLess(s, t) ==
    IF t = <<>> THEN FALSE
    ELSE IF s = <<>> THEN TRUE
    ELSE IF Ord(Head(s)) # Ord(Head(t)) THEN Ord(Head(s)) < Ord(Head(t))
    ELSE StrLess(Tail(s), Tail(t))

RECURSIVE Insert(_, _)
Insert(x, s) ==
    IF s = <<>> THEN <<x>>
    ELSE IF StrLess(x, Head(s)) THEN <<x>> \o s
    ELSE <<Head(s)>> \o Insert(x, Tail(s))

RECURSIVE Sorted(_)
\* sorted(list of str); stable, duplicates kept
Sorted(s) == IF s = <<>> THEN <<>> ELSE Insert(s[Len(s)], Sorted(SubSeq(s, 1, Len(s) - 1)))

Range(s) == {s[i] : i \in 1..Len(s)}

RECURSIVE SetToSeq(_)
SetToSeq(S) == IF S = {} THEN <<>>
               ELSE LET x == CHOOSE y \in S : TRUE IN <<x>> \o SetToSeq(S \ {x})

\* sorted(set)
SortedSet(S) == Sorted(SetToSeq(S))


\* the identifier with its two parts in the other order
SampleID_FrameFirst(e, frame) == Str(frame) \o <<"_">> \o Str(e)

\* str(e) + "_" + str(frame)
SampleID(e, frame) == Str(e) \o <<"_">> \o Str(frame)

ComaugTag == <<"-", "c", "o", "m", "a", "u", "g">>

\* the tag without the iteration number
ComaugID_NoIter(sample, iter) == sample \o ComaugTag

\* sample + "-comaug{}".format(iter)
ComaugID(sample, iter) == sample \o ComaugTag \o Str(iter)

RECURSIVE HasTagFrom(_, _)
HasTagFrom(s, i) ==
    IF i + Len(ComaugTag) - 1 > Len(s) THEN FALSE
    ELSE IF SubSeq(s, i, i + Len(ComaugTag) - 1) = ComaugTag THEN TRUE
    ELSE HasTagFrom(s, i + 1)

\* "-comaug" in s
IsComaug(s) == HasTagFrom(s, 1)

\* ------------------------------------------------------------------ dicts
NoneVal == [tag |-> "None"]
EmptyDict == [k \in {} |-> 0]
Put(d, k, v) == (k :> v) @@ d

\* ------------------------------------------------------------------ floats
NaN == <<>>
Val(v) == <<v>>
IsNaN(x) == x = NaN

\* np.isnan(pose).all()
AllNaN(pose) == \A a \in 1..Len(pose) : \A k \in 1..Len(pose[a]) : IsNaN(pose[a][k])
\* np.isnan(pose).any()
AnyNaN(pose) == \E a \in 1..Len(pose) : \E k \in 1..Len(pose[a]) : IsNaN(pose[a][k])

VecAdd(u, v) == [a \in 1..Len(u) |-> u[a] + v[a]]
RECURSIVE SumSeq(_)
SumSeq(s) == IF s = <<>> THEN 0 ELSE Head(s) + SumSeq(Tail(s))
\* np.sum((anchor1 - anchor2) ** 2)
DistSq(u, v) == SumSeq([a \in 1..Len(u) |-> (u[a] - v[a]) * (u[a] - v[a])])
\* np.sqrt(d2) <= t
SqrtLeq(d2, t) == t >= 0 /\ d2 <= t * t

\* --------------------------------------------- the annotation store (input)
\* Recordings as load_all_exps hands them over: two experiments, which for a
\* social dataset are the two animals of one recording, NumFrames frames
\* each.  A scene fixes the grid extent, where the second animal stands
\* relative to the first, and which samples are unlabeled.
Scenes == 0 .. 3
ExpIDs == {0, 1}
FrameIdx == 1 .. NumFrames
Frame(i) == 9 * i - 6

\* (vmin, vmax) as configured
Extent(sc) == IF sc % 2 = 0 THEN <<-8, 8>> ELSE <<-4, 4>>

Deltas == << <<4, 0, 0>>, <<0, 8, 0>>, <<-4, 4, 0>>, <<0, 0, 12>> >>
Delta(sc, i) == Deltas[((sc + i) % Len(Deltas)) + 1]

ComOf(sc, e, i) ==
    LET c0 == <<16 * i, 4 * i, 0>>
    IN  IF e = 0 THEN c0 ELSE VecAdd(c0, Delta(sc, i))

KindOf(sc, e, i) ==
    CASE sc % 4 = 0 -> "full"
      [] sc % 4 = 1 -> IF i = 1 THEN (IF e = 0 THEN "nan" ELSE "partial") ELSE "full"
      [] sc % 4 = 2 -> IF i = 2 THEN "nan" ELSE "full"
      [] OTHER -> IF e = 1 /\ i = 1 THEN "nan" ELSE "full"

\* Pose3D, shape [3, NKeypoints]: keypoint k sits at COM + (4k, -4k, 4e)
PoseOf(sc, e, i) ==
    LET com == ComOf(sc, e, i)
        off(a, k) == IF a = 1 THEN 4 * k ELSE IF a = 2 THEN 0 - 4 * k ELSE 4 * e
        kind == KindOf(sc, e, i)
    IN  [a \in 1..3 |->
            [k \in 1..NKeypoints |->
                IF kind = "nan" \/ (kind = "partial" /\ k > 1) THEN NaN
                ELSE Val(com[a] + off(a, k))]]

LoadedIDs == {SampleID(e, Frame(i)) : e \in ExpIDs, i \in FrameIdx}
\* the (experiment, frame index) a loaded identifier was built from
SourceOf(id) == CHOOSE p \in ExpIDs \X FrameIdx : SampleID(p[1], Frame(p[2])) = id

\* samples, datadict, datadict_3d, com3d_dict of load_all_exps
LoadSamples == SortedSet(LoadedIDs)
LoadDatadict == [id \in LoadedIDs |-> [exp |-> SourceOf(id)[1], frame |-> Frame(SourceOf(id)[2])]]
LoadDatadict3d(sc) == [id \in LoadedIDs |-> PoseOf(sc, SourceOf(id)[1], SourceOf(id)[2])]
LoadCom3d(sc) == [id \in LoadedIDs |-> ComOf(sc, SourceOf(id)[1], SourceOf(id)[2])]

\* ------------------------------------------------------------- np.random
RandStream == <<0, 3, 1, 2, 2, 0, 3, 1, 1, 1, 0, 3, 2>>
Seeds == {0, 5}
\* the draw at stream position pos, in quarters: np.random.rand() = RandAt(pos) / 4
RandAt(pos) == RandStream[(pos % Len(RandStream)) + 1]

\* -------------------------------------------------- sample_COM_augmentation
\* The loop state: train_samples_new, the three dictionaries (mutated in
\* place by the code) and the generator position.
AugState(datadict_, datadict_3d_, com3d_dict_, rng_) ==
    [new |-> <<>>, datadict |-> datadict_, datadict_3d |-> datadict_3d_,
     com3d_dict |-> com3d_dict_, rng |-> rng_]

\* offsets drawn from [0, 2 * perturb_radius): the shift by perturb_radius forgotten
ComAugDraw_NoShift(n, perturb_radius, rng_) ==
    [a \in 1..n |-> (perturb_radius * 2 * RandAt(rng_ + a - 1)) \div 4]

\* perturb_radius * 2 * np.random.rand(len(com3d_new)) - perturb_radius
ComAugDraw(n, perturb_radius, rng_) ==
    [a \in 1..n |-> (perturb_radius * 2 * RandAt(rng_ + a - 1)) \div 4 - perturb_radius]

\* a loop body that skips a sample as soon as one keypoint is NaN
AugmentSample_AnyNaN(st, sample, iter, perturb_radius) ==
    IF AnyNaN(st.datadict_3d[sample]) THEN st
    ELSE LET com3d_old == st.com3d_dict[sample]
             com_aug == ComAugDraw(Len(com3d_old), perturb_radius, st.rng)
             com3d_new == VecAdd(com3d_old, com_aug)
             sample_new == ComaugID(sample, iter)
         IN  [new |-> Append(st.new, sample_new),
              com3d_dict |-> Put(st.com3d_dict, sample_new, com3d_new),
              datadict_3d |-> Put(st.datadict_3d, sample_new, st.datadict_3d[sample]),
              datadict |-> Put(st.datadict, sample_new, st.datadict[sample]),
              rng |-> st.rng + Len(com3d_old)]

\* a loop body without the deepcopy: the perturbation lands in the source's COM too
AugmentSample_NoCopy(st, sample, iter, perturb_radius) ==
    IF AllNaN(st.datadict_3d[sample]) THEN st
    ELSE LET com3d_old == st.com3d_dict[sample]
             com_aug == ComAugDraw(Len(com3d_old), perturb_radius, st.rng)
             com3d_new == VecAdd(com3d_old, com_aug)
             sample_new == ComaugID(sample, iter)
         IN  [new |-> Append(st.new, sample_new),
              com3d_dict |-> Put(Put(st.com3d_dict, sample, com3d_new), sample_new, com3d_new),
              datadict_3d |-> Put(st.datadict_3d, sample_new, st.datadict_3d[sample]),
              datadict |-> Put(st.datadict, sample_new, st.datadict[sample]),
              rng |-> st.rng + Len(com3d_old)]

\* the body of the inner loop for one training sample
AugmentSample(st, sample, iter, perturb_radius) ==
    IF AllNaN(st.datadict_3d[sample]) THEN st
    ELSE LET com3d_old == st.com3d_dict[sample]
             com_aug == ComAugDraw(Len(com3d_old), perturb_radius, st.rng)
             com3d_new == VecAdd(com3d_old, com_aug)
             sample_new == ComaugID(sample, iter)
         IN  [new |-> Append(st.new, sample_new),
              com3d_dict |-> Put(st.com3d_dict, sample_new, com3d_new),
              datadict_3d |-> Put(st.datadict_3d, sample_new, st.datadict_3d[sample]),
              datadict |-> Put(st.datadict, sample_new, st.datadict[sample]),
              rng |-> st.rng + Len(com3d_old)]

RECURSIVE AugmentPass(_, _, _, _, _)
\* for sample in train_samples: (one pass of the inner loop, from position j)
AugmentPass(st, train_samples, j, iter, perturb_radius) ==
    IF j > Len(train_samples) THEN st
    ELSE AugmentPass(AugmentSample(st, train_samples[j], iter, perturb_radius),
                     train_samples, j + 1, iter, perturb_radius)

RECURSIVE AugmentIters(_, _, _, _, _)
\* for iter in range(aug_iters):
AugmentIters(st, train_samples, iter, aug_iters, perturb_radius) ==
    IF iter >= aug_iters THEN st
    ELSE AugmentIters(AugmentPass(st, train_samples, 1, iter, perturb_radius),
                      train_samples, iter + 1, aug_iters, perturb_radius)

\* an augmentation that returns samples without the validation identifiers
sample_COM_augmentation_NoValid(datadict_, datadict_3d_, com3d_dict_, partition_, perturb_radius, aug_iters, rng_) ==
    LET train_samples == partition_.train_sampleIDs
        st == AugmentIters(AugState(datadict_, datadict_3d_, com3d_dict_, rng_),
                           train_samples, 0, aug_iters, perturb_radius)
    IN  [samples |-> Sorted(train_samples \o st.new),
         datadict |-> st.datadict,
         datadict_3d |-> st.datadict_3d,
         com3d_dict |-> st.com3d_dict,
         partition |-> [partition_ EXCEPT
                           !.train_sampleIDs = Sorted(train_samples \o st.new)],
         rng |-> st.rng]

\* what the call returns: samples, the dictionaries, partition (and the generator)
sample_COM_augmentation(datadict_, datadict_3d_, com3d_dict_, partition_, perturb_radius, aug_iters, rng_) ==
    LET train_samples == partition_.train_sampleIDs
        valid_samples == partition_.valid_sampleIDs
        st == AugmentIters(AugState(datadict_, datadict_3d_, com3d_dict_, rng_),
                           train_samples, 0, aug_iters, perturb_radius)
    IN  [samples |-> Sorted(train_samples \o st.new \o valid_samples),
         datadict |-> st.datadict,
         datadict_3d |-> st.datadict_3d,
         com3d_dict |-> st.com3d_dict,
         partition |-> [partition_ EXCEPT
                           !.train_sampleIDs = Sorted(train_samples \o st.new)],
         rng |-> st.rng]

\* ------------------------------------------------------ identifier parsing
RECURSIVE SplitFrom(_, _, _)
\* s.split("_"): cur is the part being read
SplitFrom(s, i, cur) ==
    IF i > Len(s) THEN <<cur>>
    ELSE IF s[i] = "_" THEN <<cur>> \o SplitFrom(s, i + 1, <<>>)
    ELSE SplitFrom(s, i + 1, Append(cur, s[i]))

Split(s) == SplitFrom(s, 1, <<>>)

DigitValue(c) == CHOOSE d \in 0..9 : DigitChars[d + 1] = c
IsDigits(s) == s # <<>> /\ \A i \in 1..Len(s) : \E d \in 0..9 : DigitChars[d + 1] = s[i]
RECURSIVE ParseInt(_)
\* int(s) for a string of digits
ParseInt(s) == IF Len(s) = 1 THEN DigitValue(s[1])
               ELSE 10 * ParseInt(SubSeq(s, 1, Len(s) - 1)) + DigitValue(s[Len(s)])

\* int(samp.split("_")[0])
ExpOf(samp) == ParseInt(Split(samp)[1])

\* ------------------------------------------ processing (not in this source)
\* make_data_splits: the samples of valid_ids go to validation, the rest to
\* training; both lists sorted.
make_data_splits(samples_, valid_ids) ==
    [train_sampleIDs |-> Sorted(SelectSeq(samples_, LAMBDA x : x \notin valid_ids)),
     valid_sampleIDs |-> Sorted(SelectSeq(samples_, LAMBDA x : x \in valid_ids))]

\* rows of one chunk (temporal_chunk_size)
ChunkSize == 2
RECURSIVE Chunked(_)
\* a list cut into runs of ChunkSize, the last one may be shorter
Chunked(ids) ==
    IF Len(ids) <= ChunkSize THEN (IF ids = <<>> THEN <<>> ELSE <<ids>>)
    ELSE <<SubSeq(ids, 1, ChunkSize)>> \o Chunked(SubSeq(ids, ChunkSize + 1, Len(ids)))
RECURSIVE ChunksByExp(_, _)
\* the chunks of each experiment in turn
ChunksByExp(ids, es) ==
    IF es = <<>> THEN <<>>
    ELSE Chunked(SelectSeq(ids, LAMBDA x : ExpOf(x) = Head(es))) \o ChunksByExp(ids, Tail(es))
\* make_data_splits with temporal chunks: each side of the partition also
\* listed as runs of consecutive samples of one experiment
make_data_splits_temporal(samples_, valid_ids) ==
    LET p == make_data_splits(samples_, valid_ids)
        es == [i \in 1..Cardinality(ExpIDs) |-> i - 1]
    IN  [train_sampleIDs |-> p.train_sampleIDs, valid_sampleIDs |-> p.valid_sampleIDs,
         train_chunks |-> ChunksByExp(p.train_sampleIDs, es),
         valid_chunks |-> ChunksByExp(p.valid_sampleIDs, es)]

\* the companion of a first-instance sample: same frame token, next experiment
Companion(samp) == Str(ExpOf(samp) + 1) \o SubSeq(samp, Len(Split(samp)[1]) + 1, Len(samp))

RECURSIVE PairsOf(_, _)
\* the pairs (sample, companion) of the first-instance samples of a list whose
\* companion exists
PairsOf(ids, all) ==
    IF ids = <<>> THEN <<>>
    ELSE (IF ExpOf(Head(ids)) % 2 = 0 /\ Companion(Head(ids)) \in all
          THEN << <<Head(ids), Companion(Head(ids))>> >> ELSE <<>>)
         \o PairsOf(Tail(ids), all)

RECURSIVE Flatten(_)
Flatten(ps) == IF ps = <<>> THEN <<>> ELSE Head(ps) \o Flatten(Tail(ps))

\* resplit_social: both instances of a frame follow the split of the first
\* instance; returns the partition and the pair lists
resplit_social(partition_) ==
    LET all == Range(partition_.train_sampleIDs) \cup Range(partition_.valid_sampleIDs)
        tp == PairsOf(partition_.train_sampleIDs, all)
        vp == PairsOf(partition_.valid_sampleIDs, all)
    IN  [partition |-> [partition_ EXCEPT !.train_sampleIDs = Sorted(Flatten(tp)),
                                          !.valid_sampleIDs = Sorted(Flatten(vp))],
         pairs |-> [train_pairs |-> tp, valid_pairs |-> vp]]

\* mask_coords_outside_volume: a keypoint with a coordinate outside
\* [vmin, vmax] around the anchor (or NaN) is set to NaN on all three axes
mask_coords_outside_volume(vmin, vmax, pose3d, anchor) ==
    LET inside(k) == \A a \in 1..3 :
                        /\ ~IsNaN(pose3d[a][k])
                        /\ pose3d[a][k][1] - anchor[a] >= vmin
                        /\ pose3d[a][k][1] - anchor[a] <= vmax
    IN  [a \in 1..3 |-> [k \in 1..Len(pose3d[a]) |->
                            IF inside(k) THEN pose3d[a][k] ELSE NaN]]

\* np.concatenate((primary, secondary), axis=-1)
ConcatPose(primary, secondary) == [a \in 1..3 |-> primary[a] \o secondary[a]]

\* prepare_joint_volumes: the target of each instance of a pair is its own
\* pose followed by the companion's pose, the latter kept only where it lies
\* inside the instance's volume
prepare_joint_volumes(vmin, vmax, pairs_, com3d_dict_, datadict_3d_) ==
    LET ps == pairs_.train_pairs \o pairs_.valid_pairs
        mate(id) == IF \E i \in 1..Len(ps) : ps[i][1] = id
                    THEN ps[CHOOSE i \in 1..Len(ps) : ps[i][1] = id][2]
                    ELSE ps[CHOOSE i \in 1..Len(ps) : ps[i][2] = id][1]
        paired == Range(Flatten(ps))
    IN  [id \in DOMAIN datadict_3d_ |->
            IF id \in paired
            THEN ConcatPose(datadict_3d_[id],
                            mask_coords_outside_volume(vmin, vmax,
                                datadict_3d_[mate(id)], com3d_dict_[id]))
            ELSE datadict_3d_[id]]

\* ------------------------------------------- make_dataset, social_big_volume
\* dist < threshold: a pair exactly at the threshold left unmerged
CloseEnough_Strict(anchor1, anchor2, threshold) ==
    threshold >= 0 /\ DistSq(anchor1, anchor2) < threshold * threshold

\* dist <= threshold for the two anchors
CloseEnough(anchor1, anchor2, threshold) == SqrtLeq(DistSq(anchor1, anchor2), threshold)

\* the merge with the first instance primary when the two COMs are level
MergePair_TieFirst(acc, vol1, vol2, com3d_dict_, datadict_3d_, vmin, vmax) ==
    LET threshold == (vmax - vmin) \div 2
        anchor1 == com3d_dict_[vol1]
        anchor2 == com3d_dict_[vol2]
        pose3d1 == datadict_3d_[vol1]
        pose3d2 == datadict_3d_[vol2]
    IN  IF CloseEnough(anchor1, anchor2, threshold)
        THEN LET new_com == [a \in 1..3 |-> (anchor1[a] + anchor2[a]) \div 2]
                 primary == IF anchor1[1] <= anchor2[1] THEN pose3d1 ELSE pose3d2
                 secondary == IF anchor1[1] <= anchor2[1] THEN pose3d2 ELSE pose3d1
                 new_pose3d == ConcatPose(primary, secondary)
             IN  [samps |-> Append(acc.samps, vol1),
                  datadict_3d |-> Put(acc.datadict_3d, vol1,
                      mask_coords_outside_volume(vmin - threshold \div 2,
                          vmax + threshold \div 2, new_pose3d, new_com)),
                  com3d_dict |-> Put(acc.com3d_dict, vol1, new_com)]
        ELSE acc

\* the merge with the poses masked at the extent as configured
MergePair_MaskUnexpanded(acc, vol1, vol2, com3d_dict_, datadict_3d_, vmin, vmax) ==
    LET threshold == (vmax - vmin) \div 2
        anchor1 == com3d_dict_[vol1]
        anchor2 == com3d_dict_[vol2]
        pose3d1 == datadict_3d_[vol1]
        pose3d2 == datadict_3d_[vol2]
    IN  IF CloseEnough(anchor1, anchor2, threshold)
        THEN LET new_com == [a \in 1..3 |-> (anchor1[a] + anchor2[a]) \div 2]
                 primary == IF anchor1[1] < anchor2[1] THEN pose3d1 ELSE pose3d2
                 secondary == IF anchor1[1] < anchor2[1] THEN pose3d2 ELSE pose3d1
                 new_pose3d == ConcatPose(primary, secondary)
             IN  [samps |-> Append(acc.samps, vol1),
                  datadict_3d |-> Put(acc.datadict_3d, vol1,
                      mask_coords_outside_volume(vmin, vmax, new_pose3d, new_com)),
                  com3d_dict |-> Put(acc.com3d_dict, vol1, new_com)]
        ELSE acc

\* the body of "for (vol1, vol2) in v": acc holds samps and the two new dicts
MergePair(acc, vol1, vol2, com3d_dict_, datadict_3d_, vmin, vmax) ==
    LET threshold == (vmax - vmin) \div 2
        anchor1 == com3d_dict_[vol1]
        anchor2 == com3d_dict_[vol2]
        pose3d1 == datadict_3d_[vol1]
        pose3d2 == datadict_3d_[vol2]
    IN  IF CloseEnough(anchor1, anchor2, threshold)
        THEN LET new_com == [a \in 1..3 |-> (anchor1[a] + anchor2[a]) \div 2]
                 primary == IF anchor1[1] < anchor2[1] THEN pose3d1 ELSE pose3d2
                 secondary == IF anchor1[1] < anchor2[1] THEN pose3d2 ELSE pose3d1
                 new_pose3d == ConcatPose(primary, secondary)
             IN  [samps |-> Append(acc.samps, vol1),
                  datadict_3d |-> Put(acc.datadict_3d, vol1,
                      mask_coords_outside_volume(vmin - threshold \div 2,
                          vmax + threshold \div 2, new_pose3d, new_com)),
                  com3d_dict |-> Put(acc.com3d_dict, vol1, new_com)]
        ELSE acc

RECURSIVE MergePairList(_, _, _, _, _, _)
\* for (vol1, vol2) in v:
MergePairList(acc, v, com3d_dict_, datadict_3d_, vmin, vmax) ==
    IF v = <<>> THEN acc
    ELSE MergePairList(
            MergePair(acc, Head(v)[1], Head(v)[2], com3d_dict_, datadict_3d_, vmin, vmax),
            Tail(v), com3d_dict_, datadict_3d_, vmin, vmax)

\* a big-volume merge that does not reset samps between the two keys of pairs
BigVolumeMerge_NoReset(pairs_, com3d_dict_, datadict_3d_, vmin, vmax) ==
    LET acc0 == [samps |-> <<>>, datadict_3d |-> EmptyDict, com3d_dict |-> EmptyDict]
        tr == MergePairList(acc0, pairs_.train_pairs, com3d_dict_, datadict_3d_, vmin, vmax)
        va == MergePairList(tr, pairs_.valid_pairs, com3d_dict_, datadict_3d_, vmin, vmax)
    IN  [datadict_3d |-> va.datadict_3d,
         com3d_dict |-> va.com3d_dict,
         samples |-> Sorted(tr.samps \o va.samps),
         partition |-> [train_sampleIDs |-> tr.samps, valid_sampleIDs |-> va.samps]]

\* lines 127-159: the new dictionaries, the new partition and samples
BigVolumeMerge(pairs_, com3d_dict_, datadict_3d_, vmin, vmax) ==
    LET acc0 == [samps |-> <<>>, datadict_3d |-> EmptyDict, com3d_dict |-> EmptyDict]
        tr == MergePairList(acc0, pairs_.train_pairs, com3d_dict_, datadict_3d_, vmin, vmax)
        va == MergePairList([tr EXCEPT !.samps = <<>>], pairs_.valid_pairs,
                            com3d_dict_, datadict_3d_, vmin, vmax)
    IN  [datadict_3d |-> va.datadict_3d,
         com3d_dict |-> va.com3d_dict,
         samples |-> Sorted(tr.samps \o va.samps),
         partition |-> [train_sampleIDs |-> tr.samps, valid_sampleIDs |-> va.samps]]

\* ------------------------------------------------------------------- state
VARIABLES
    pc,           \* where the preparer stands
    error,        \* the exception that ended it, or "none"
    params,       \* the parameter dictionary
    base_params,
    samples,
    datadict,
    datadict_3d,
    com3d_dict,
    partition,
    pairs,
    rng,          \* position of np.random in its stream
    cameras,      \* experiment index -> the recording its calibration is from
    exps,         \* make_pair: the recording folders, in the order visited
    frame,        \* the preparer that is running
    stack,        \* make_rat7m's locals while the make_pair it calls runs
    fs,           \* the npy cache on disk: experiment index -> its directory
    npydir,       \* experiment index -> path of its cache directory
    missing_npydir,
    missing_samples,
    npy_generator, \* the volume generator of _make_data_npy, or NoneVal
    written,      \* the cache files the generation of this run has written
    aux,          \* the auxiliary (silhouette) side of the cache: its files on
                  \* disk and what the second half of _make_data_npy did
    out,          \* what _make_data_npy / _make_data_mem hand to the dataset
                  \* classes, or NoneVal before
    hist          \* history: what was loaded, and the state at the entry of
                  \* the merge and of the augmentation

vars == <<pc, error, params, base_params, samples, datadict, datadict_3d,
          com3d_dict, partition, pairs, rng, cameras, exps, frame, stack,
          fs, npydir, missing_npydir, missing_samples, npy_generator, written, aux,
          out, hist>>

callVars == <<cameras, exps, frame, stack>>
cacheVars == <<fs, npydir, missing_npydir, missing_samples, npy_generator, written, aux>>

\* the auxiliary side before the auxiliary examination of a run: files is
\* experiment index -> names of the silhouette files on disk
AuxIdle(files) ==
    [fs |-> files, examined |-> FALSE, missing_samples |-> <<>>, generator |-> NoneVal,
     written |-> {}]

\* the assembly does not read the cache: under Spec the disk is left out;
\* no dataset has been built when a preparer starts
NoCache ==
    /\ fs = EmptyDict
    /\ npydir = EmptyDict
    /\ missing_npydir = EmptyDict
    /\ missing_samples = <<>>
    /\ npy_generator = NoneVal
    /\ written = {}
    /\ aux = AuxIdle(EmptyDict)
    /\ out = NoneVal

\* COM_aug_radius values tried (quarter units)
Radii == {4, 8}

Hist0(sc, w) ==
    [scene |-> sc, world |-> w, loaded |-> LoadedIDs,
     vmin |-> Extent(sc)[1], vmax |-> Extent(sc)[2],
     merge |-> NoneVal, joint |-> "no", aug |-> NoneVal, fs |-> NoneVal,
     run |-> 1, prev |-> "none", cur |-> "none", gen_fs |-> NoneVal, gen_aux |-> NoneVal,
     com_loaded |-> NoneVal,
     deleted |-> NoneVal, prev_missing |-> <<>>]

\* params as config.setup_train leaves it
Params0(ds, sc, soc, big, joint, aug, npy, r, m, mp) ==
    [dataset |-> ds, is_social_dataset |-> soc,
     social_big_volume |-> big, social_joint_training |-> joint,
     COM_augmentation |-> aug, COM_aug_radius |-> r, COM_aug_iters |-> m,
     use_npy |-> npy, vmin |-> Extent(sc)[1], vmax |-> Extent(sc)[2],
     n_channels_out |-> NKeypoints, merge_pair |-> mp,
     use_silhouette |-> FALSE, use_silhouette_in_volume |-> FALSE,
     use_temporal |-> FALSE, n_instances |-> 2, experiment |-> <<0, 1>>]

BaseParams0(sc) ==
    [vmin |-> Extent(sc)[1], vmax |-> Extent(sc)[2], n_channels_out |-> NKeypoints]

\* a run on a dataset of the configuration file, before set_dataset: what
\* load_all_exps and prepend_experiment (lines 72-93) will hand make_dataset is
\* fixed from the start
InitDataset ==
    \E sc \in Scenes, soc \in BOOLEAN, big \in BOOLEAN, joint \in BOOLEAN,
       aug \in BOOLEAN, npy \in BOOLEAN, r \in Radii, m \in 1..MaxAugIters, seed \in Seeds,
       sil \in BOOLEAN, silvol \in BOOLEAN, tmp \in BOOLEAN :
        /\ (~aug) => (r = 4 /\ m = 1 /\ seed = 0)
        \* the silhouette and temporal settings are tried on the first scene of
        \* a non-social dataset, the temporal one also with the big-volume
        \* merge of a social dataset
        /\ (sil \/ silvol \/ tmp) => (sc = 0 /\ ~joint /\ r = 4 /\ m = 1 /\ seed = 0)
        /\ (sil \/ silvol) => (~soc /\ ~big)
        /\ tmp => (soc = big)
        /\ pc = "set_dataset"
        /\ error = "none"
        /\ params = [Params0("label3d", sc, soc, big, joint, aug, npy, r, m, FALSE)
                        EXCEPT !.use_silhouette = sil, !.use_silhouette_in_volume = silvol,
                               !.use_temporal = tmp]
        /\ base_params = BaseParams0(sc)
        /\ cameras = [e \in ExpIDs |-> e]
        /\ exps = <<>>
        /\ frame = "train_prep"
        /\ stack = <<>>
        /\ NoCache
        /\ samples = LoadSamples
        /\ datadict = LoadDatadict
        /\ datadict_3d = LoadDatadict3d(sc)
        /\ com3d_dict = LoadCom3d(sc)
        /\ partition = [train_sampleIDs |-> <<>>, valid_sampleIDs |-> <<>>]
        /\ pairs = NoneVal
        /\ rng = seed
        /\ hist = Hist0(sc, NoneVal)

\* set_dataset (lines 50-61), called by interface._train_prep: the preparer
\* for params["dataset"].  The branch for "rat7m+pair" reads the local
\* spec_args before anything is assigned to it.
set_dataset ==
    /\ pc = "set_dataset"
    /\ IF params.dataset = "rat7m"
       THEN frame' = "make_rat7m" /\ pc' = "rat7m_split" /\ error' = error
       ELSE IF params.dataset = "rat7m+pair"
       THEN frame' = frame /\ pc' = "raised" /\ error' = "UnboundLocalError"
       ELSE IF params.dataset = "pair"
       THEN frame' = "make_pair" /\ pc' = "pair_convert" /\ error' = error
       ELSE frame' = "make_dataset" /\ pc' = "split" /\ error' = error
    /\ UNCHANGED <<params, base_params, samples, datadict, datadict_3d, com3d_dict,
                   partition, pairs, rng, cameras, exps, stack, hist>>
    /\ UNCHANGED out
    /\ UNCHANGED cacheVars

\* the validation sets make_data_splits may pick: a whole experiment, all
\* samples of one frame, or a single sample
ValidChoices ==
    {{SampleID(e, Frame(i)) : i \in FrameIdx} : e \in ExpIDs}
    \cup {{SampleID(e, Frame(i)) : e \in ExpIDs} : i \in FrameIdx}
    \cup {{id} : id \in LoadedIDs}

\* lines 96-116: the split, the social re-split, and samples rebound to the
\* training identifiers
make_dataset_split ==
    /\ pc = "split"
    /\ \E V \in ValidChoices :
        LET p0 == IF params.use_temporal THEN make_data_splits_temporal(samples, V)
                  ELSE make_data_splits(samples, V)
            rs == resplit_social(p0)
            p1 == IF params.is_social_dataset THEN rs.partition ELSE p0
        IN  /\ partition' = p1
            /\ pairs' = IF params.is_social_dataset THEN rs.pairs ELSE NoneVal
            /\ samples' = p1.train_sampleIDs
    /\ pc' = "big_volume"
    /\ UNCHANGED <<error, params, base_params, datadict, datadict_3d, com3d_dict, rng, hist>>
    /\ UNCHANGED callVars
    /\ UNCHANGED out
    /\ UNCHANGED cacheVars

\* lines 123-168
make_dataset_big_volume ==
    /\ pc = "big_volume"
    /\ IF ~params.social_big_volume
       THEN /\ pc' = "joint"
            /\ UNCHANGED <<error, params, base_params, samples, datadict_3d,
                           com3d_dict, partition, pairs, hist>>
       ELSE IF pairs = NoneVal
       THEN \* pairs.items() on None
            /\ pc' = "raised"
            /\ error' = "AttributeError"
            /\ UNCHANGED <<params, base_params, samples, datadict_3d,
                           com3d_dict, partition, pairs, hist>>
       ELSE LET vmin == params.vmin
                vmax == params.vmax
                threshold == (vmax - vmin) \div 2
                m == BigVolumeMerge(pairs, com3d_dict, datadict_3d, vmin, vmax)
            IN  /\ datadict_3d' = m.datadict_3d
                /\ com3d_dict' = m.com3d_dict
                /\ samples' = m.samples
                /\ partition' = m.partition
                /\ pairs' = NoneVal
                /\ params' = [params EXCEPT
                                !.n_channels_out = @ * 2,
                                !.vmin = vmin - threshold \div 2,
                                !.vmax = vmax + threshold \div 2,
                                !.is_social_dataset = FALSE]
                /\ base_params' = [base_params EXCEPT
                                !.n_channels_out = @ * 2,
                                !.vmin = vmin - threshold \div 2,
                                !.vmax = vmax + threshold \div 2]
                /\ hist' = [hist EXCEPT !.merge =
                                [pairs |-> pairs, partition |-> partition,
                                 com3d_dict |-> com3d_dict, datadict_3d |-> datadict_3d]]
                /\ pc' = "joint"
                /\ error' = error
    /\ UNCHANGED <<datadict, rng>>
    /\ UNCHANGED callVars
    /\ UNCHANGED out
    /\ UNCHANGED cacheVars

\* lines 170-183.  prepare_joint_volumes is handed pairs as it stands; what it
\* does with None is not defined here: it raises or returns the poses as they
\* are.
make_dataset_joint ==
    /\ pc = "joint"
    /\ IF ~params.social_joint_training
       THEN /\ pc' = "makedata"
            /\ UNCHANGED <<error, params, base_params, datadict_3d, pairs, hist>>
       ELSE \E outcome \in {"return", "raise"} :
            /\ (pairs # NoneVal) => outcome = "return"
            /\ hist' = [hist EXCEPT !.joint = IF pairs = NoneVal THEN "none" ELSE "pairs"]
            /\ IF outcome = "raise"
               THEN /\ pc' = "raised"
                    /\ error' = "TypeError"
                    /\ UNCHANGED <<params, base_params, datadict_3d, pairs>>
               ELSE /\ datadict_3d' =
                         IF pairs = NoneVal THEN datadict_3d
                         ELSE prepare_joint_volumes(params.vmin, params.vmax, pairs,
                                                    com3d_dict, datadict_3d)
                    /\ params' = [params EXCEPT !.n_channels_out = @ * 2,
                                                !.is_social_dataset = FALSE]
                    /\ base_params' = [base_params EXCEPT !.n_channels_out = @ * 2]
                    /\ pairs' = NoneVal
                    /\ pc' = "makedata"
                    /\ error' = error
    /\ UNCHANGED <<samples, datadict, com3d_dict, partition, rng>>
    /\ UNCHANGED callVars
    /\ UNCHANGED out
    /\ UNCHANGED cacheVars

\* _make_data_npy (rat7m=False) and _make_data_mem up to the datasets: the
\* COM augmentation when it is configured (lines 568-583, 748-760)
PopulateAugmented ==
    IF params.COM_augmentation
    THEN LET r == sample_COM_augmentation(datadict, datadict_3d, com3d_dict, partition,
                      params.COM_aug_radius, params.COM_aug_iters, rng)
         IN  /\ samples' = r.samples
             /\ datadict' = r.datadict
             /\ datadict_3d' = r.datadict_3d
             /\ com3d_dict' = r.com3d_dict
             /\ partition' = r.partition
             /\ rng' = r.rng
             /\ hist' = [hist EXCEPT !.aug =
                            [datadict |-> datadict, datadict_3d |-> datadict_3d,
                             com3d_dict |-> com3d_dict, partition |-> partition,
                             samples |-> samples, rng |-> rng]]
    ELSE UNCHANGED <<samples, datadict, datadict_3d, com3d_dict, partition, rng, hist>>

\* ------------------------------------------------ _convert_pair_to_label3d
\* rows at the end of a recording that are never sampled (line 1334)
TailFrames == 120
\* total_n of the two calls in make_pair (1000 and 100 in the source), scaled
PairTrainN == 2
PairValidN == 2
\* np.random.seed(10241024)
PairSeed == 10241024

\* markerDataset.csv of one recording folder: pose and COM of animal an at a row
PairCom(can, an, f) == <<16 * f, 4 * an, 8 * can.idx>>
PairPose(can, an, f, merge_pair) ==
    LET com == PairCom(can, an, f)
        raw == [a \in 1..3 |-> [k \in 1..NKeypoints |-> Val(com[a] + 4 * k)]]
    IN  IF merge_pair
        \* pose3d_r7m = nan everywhere, the PAIR keypoints written at pair_index:
        \* the RAT7M layout has more keypoints than PAIR, the last stays NaN
        THEN [a \in 1..3 |-> [k \in 1..(NKeypoints + 1) |->
                                IF k <= NKeypoints THEN raw[a][k] ELSE NaN]]
        ELSE raw

\* np.random.choice(frames, n): n draws with replacement
RandomChoice(frames, n, rng_) ==
    [j \in 1..n |-> frames[((RandAt(rng_ + j - 1) * Len(frames)) \div 4) + 1]]

RECURSIVE SortedNats(_)
SortedNats(S) == IF S = {} THEN <<>>
                 ELSE LET x == CHOOSE y \in S : \A z \in S : y <= z
                      IN  <<x>> \o SortedNats(S \ {x})

RECURSIVE PutSamples(_, _, _, _)
\* for j, samp in enumerate(sampleIDs): d[samp] = values[j]
PutSamples(d, ids, values, j) ==
    IF j > Len(ids) THEN d
    ELSE PutSamples(Put(d, ids[j], values[j]), ids, values, j + 1)

\* the body of "for can in candidates" (lines 1294-1387)
ConvertCandidate(acc, can, total_n, merge_pair) ==
    LET acc1 == [acc EXCEPT !.exps = Append(@, can.folder)]
    IN  IF can.good = {}
        THEN [acc1 EXCEPT !.n_candidates = @ - 1]
        ELSE
        LET frames == SortedNats({f \in can.good : f < can.len - TailFrames})
            n == total_n \div acc.n_candidates
        IN  IF frames = <<>> /\ n > 0
            THEN [acc1 EXCEPT !.error = "ValueError"]
            ELSE
            LET chosen == RandomChoice(frames, n, acc.rng)
                count == acc.count
                ids1 == [j \in 1..n |-> SampleID(count, chosen[j])]
                ids2 == [j \in 1..n |-> SampleID(count + 1, chosen[j])]
                \* the rows of markerDataset.csv of can, for animal 1 and animal 2
                dd1(j) == [exp |-> count, frame |-> chosen[j], folder |-> can.folder,
                           animal |-> "an1"]
                dd2(j) == [exp |-> count + 1, frame |-> chosen[j], folder |-> can.folder,
                           animal |-> "an2"]
                p1(j) == PairPose(can, 1, chosen[j], merge_pair)
                p2(j) == PairPose(can, 2, chosen[j], merge_pair)
                c1(j) == PairCom(can, 1, chosen[j])
                c2(j) == PairCom(can, 2, chosen[j])
            IN  [acc1 EXCEPT
                    !.samples = @ \o ids1 \o ids2,
                    !.datadict = PutSamples(PutSamples(@, ids1, [j \in 1..n |-> dd1(j)], 1),
                                   ids2, [j \in 1..n |-> dd2(j)], 1),
                    !.datadict_3d = PutSamples(PutSamples(@, ids1, [j \in 1..n |-> p1(j)], 1),
                                   ids2, [j \in 1..n |-> p2(j)], 1),
                    !.com3d_dict = PutSamples(PutSamples(@, ids1, [j \in 1..n |-> c1(j)], 1),
                                   ids2, [j \in 1..n |-> c2(j)], 1),
                    !.cameras = Put(Put(@, count, can.folder), count + 1, can.folder),
                    !.count = count + 2,
                    !.rng = @ + n]

RECURSIVE ConvertCandidates(_, _, _, _)
ConvertCandidates(acc, candidates, total_n, merge_pair) ==
    IF candidates = <<>> \/ acc.error # "none" THEN acc
    ELSE ConvertCandidates(ConvertCandidate(acc, Head(candidates), total_n, merge_pair),
                           Tail(candidates), total_n, merge_pair)

RECURSIVE ConvertExperiments(_, _, _, _)
\* for exp in experiments: candidates = ...[:2]; n_candidates = len(candidates)
ConvertExperiments(acc, experiments, total_n, merge_pair) ==
    IF experiments = <<>> \/ acc.error # "none" THEN acc
    ELSE ConvertExperiments(
            ConvertCandidates([acc EXCEPT !.n_candidates = Len(Head(experiments))],
                              Head(experiments), total_n, merge_pair),
            Tail(experiments), total_n, merge_pair)

\* _convert_pair_to_label3d(root, metadata, camnames, experiments, total_n,
\* count, samples, datadict, datadict_3d, com3d_dict, cameras, merge_pair);
\* exps starts empty in every call
convert_pair_to_label3d(experiments, total_n, count, samples_, datadict_, datadict_3d_, com3d_dict_, cameras_, merge_pair, rng_) ==
    ConvertExperiments(
        [samples |-> samples_, datadict |-> datadict_, datadict_3d |-> datadict_3d_,
         com3d_dict |-> com3d_dict_, cameras |-> cameras_, exps |-> <<>>,
         count |-> count, n_candidates |-> 0, rng |-> rng_, error |-> "none"],
        experiments, total_n, merge_pair)

\* ----------------------------------------------------------------- make_pair
Cand(name, i, good) ==
    [folder |-> name, idx |-> i, good |-> good, len |-> TailFrames + NumFrames + 1]
\* rows good for both animals: none, early rows, or only a row of the tail
GoodChoices == {{}, {0, 1}, {1, NumFrames}, {NumFrames + 1}}
\* metadata.csv and the recordings: one training pairing with two candidate
\* folders, one test pairing with one
Worlds ==
    {[train |-> << <<Cand("trainA", 1, g1), Cand("trainB", 2, g2)>> >>,
      test |-> << <<Cand("test", 3, g3)>> >>] : g1 \in GoodChoices, g2 \in GoodChoices,
                                                 g3 \in GoodChoices}
Rat7mWorlds == {w \in Worlds : w.train[1][1].good = w.train[1][2].good
                                /\ w.test[1][1].good = {0, 1}}
World0 == CHOOSE w \in Rat7mWorlds : w.train[1][1].good = {0, 1}

\* a run on the PAIR dataset, before set_dataset
InitPair ==
    \E w \in Worlds, aug \in BOOLEAN, npy \in BOOLEAN, r \in Radii, m \in 1..MaxAugIters :
        /\ (~aug) => (r = 4 /\ m = 1)
        /\ pc = "set_dataset"
        /\ error = "none"
        /\ params = Params0("pair", 0, FALSE, FALSE, FALSE, aug, npy, r, m, FALSE)
        /\ base_params = BaseParams0(0)
        /\ samples = <<>>
        /\ datadict = EmptyDict
        /\ datadict_3d = EmptyDict
        /\ com3d_dict = EmptyDict
        /\ partition = [train_sampleIDs |-> <<>>, valid_sampleIDs |-> <<>>]
        /\ pairs = NoneVal
        /\ rng = 0
        /\ cameras = EmptyDict
        /\ exps = <<>>
        /\ frame = "train_prep"
        /\ stack = <<>>
        /\ NoCache
        /\ hist = [Hist0(0, w) EXCEPT !.loaded = {}]

\* make_pair lines 1402-1477: both conversions and the partition
make_pair_convert ==
    /\ pc = "pair_convert"
    /\ LET mp == params.merge_pair
           r1 == convert_pair_to_label3d(hist.world.train, PairTrainN, 0, <<>>, EmptyDict,
                     EmptyDict, EmptyDict, EmptyDict, mp, PairSeed)
           train == Sorted(r1.samples)
           r2 == convert_pair_to_label3d(hist.world.test, PairValidN, Len(r1.exps) * 2,
                     r1.samples, r1.datadict, r1.datadict_3d, r1.com3d_dict, r1.cameras,
                     mp, r1.rng)
           last == IF r1.error # "none" THEN r1 ELSE r2
       IN  /\ samples' = last.samples
           /\ datadict' = last.datadict
           /\ datadict_3d' = last.datadict_3d
           /\ com3d_dict' = last.com3d_dict
           /\ cameras' = last.cameras
           /\ rng' = last.rng
           /\ IF last.error # "none"
              THEN /\ pc' = "raised"
                   /\ error' = last.error
                   /\ exps' = last.exps
                   /\ partition' = IF r1.error # "none"
                                   THEN [k \in {} |-> <<>>]
                                   ELSE [train_sampleIDs |-> train]
                   /\ hist' = hist
              ELSE /\ pc' = "makedata"
                   /\ error' = error
                   /\ exps' = r1.exps \o r2.exps
                   /\ partition' =
                        [train_sampleIDs |-> train,
                         valid_sampleIDs |-> SortedSet(Range(r2.samples) \ Range(train))]
                   /\ hist' = [hist EXCEPT !.loaded = Range(r2.samples)]
    /\ pairs' = NoneVal
    /\ UNCHANGED <<params, base_params, frame, stack, out>>
    /\ UNCHANGED cacheVars

\* ---------------------------------------------------------------- make_rat7m
\* np.random.choice(partition["train_sampleIDs"], 2000), scaled
Rat7mTrainN == 2

\* a run on RAT7M ("rat7m" or "rat7m+pair"), before set_dataset; merge_pair is
\* the keyword argument of make_rat7m, from params["dataset_args"]
InitRat7m ==
    \E ds \in {"rat7m", "rat7m+pair"}, mp \in BOOLEAN, w \in Rat7mWorlds, aug \in BOOLEAN,
       npy \in BOOLEAN, r \in Radii, m \in 1..MaxAugIters :
        /\ (~aug) => (r = 4 /\ m = 1)
        /\ (~mp) => (w = World0 /\ ~aug /\ ~npy)
        /\ ds = "rat7m+pair" => (w = World0 /\ ~aug)
        /\ pc = "set_dataset"
        /\ error = "none"
        /\ params = Params0(ds, 0, FALSE, FALSE, FALSE, aug, npy, r, m, mp)
        /\ base_params = BaseParams0(0)
        /\ samples = LoadSamples
        /\ datadict = LoadDatadict
        /\ datadict_3d = LoadDatadict3d(0)
        /\ com3d_dict = LoadCom3d(0)
        /\ partition = [train_sampleIDs |-> <<>>, valid_sampleIDs |-> <<>>]
        /\ pairs = NoneVal
        /\ rng = 0
        /\ cameras = [e \in ExpIDs |-> e]
        /\ exps = <<>>
        /\ frame = "train_prep"
        /\ stack = <<>>
        /\ NoCache
        /\ hist = Hist0(0, w)

\* make_rat7m lines 372-386: the split and, with merge_pair, the subsample
make_rat7m_split ==
    /\ pc = "rat7m_split"
    /\ \E V \in ValidChoices :
        LET p0 == make_data_splits(samples, V)
        IN  IF params.merge_pair
            THEN IF p0.train_sampleIDs = <<>>
                 THEN /\ pc' = "raised"
                      /\ error' = "ValueError"
                      /\ partition' = p0
                      /\ rng' = PairSeed
                 ELSE /\ partition' = [p0 EXCEPT !.train_sampleIDs =
                             RandomChoice(p0.train_sampleIDs, Rat7mTrainN, PairSeed)]
                      /\ rng' = PairSeed + Rat7mTrainN
                      /\ pc' = "makedata"
                      /\ error' = error
            ELSE /\ partition' = p0
                 /\ rng' = rng
                 /\ pc' = "makedata"
                 /\ error' = error
    /\ UNCHANGED <<params, base_params, samples, datadict, datadict_3d, com3d_dict,
                   pairs, hist>>
    /\ UNCHANGED callVars
    /\ UNCHANGED out
    /\ UNCHANGED cacheVars

\* ----------------------------------------------- _make_data_npy, _make_data_mem
\* what follows the construction of the datasets: make_rat7m with merge_pair
\* calls make_pair (lines 465-473), every other preparer is done
AfterMakeData ==
    IF frame = "make_rat7m" /\ params.merge_pair
    THEN /\ pc' = "pair_convert"
         /\ frame' = "make_pair"
         /\ stack' = <<[frame |-> frame, partition |-> partition, samples |-> samples,
                        loaded |-> hist.loaded]>>
    ELSE /\ pc' = "done"
         /\ UNCHANGED <<frame, stack>>

\* get_segmentation_model that prepares the model whatever use_silhouette is
get_segmentation_model_Always(params_) == [tag |-> "segmentation_model"]

\* get_segmentation_model: a model only with use_silhouette
get_segmentation_model(params_) ==
    IF params_.use_silhouette THEN [tag |-> "segmentation_model"] ELSE NoneVal

\* partition[key] if params["use_temporal"] else None
TemporalChunkList(params_, partition_, key) ==
    IF params_.use_temporal /\ key \in DOMAIN partition_ THEN partition_[key] ELSE NoneVal
\* the lookup above raises KeyError: the partition has no chunk lists
ChunksMissing(params_, partition_) ==
    params_.use_temporal /\ ~({"train_chunks", "valid_chunks"} \subseteq DOMAIN partition_)
\* the function ends with the KeyError, no dataset built
RaiseKeyError ==
    /\ pc' = "raised"
    /\ error' = "KeyError"
    /\ UNCHANGED <<out, frame, stack>>

\* the partition the datasets are built from: _make_data_mem always
\* populates the augmented samples, _make_data_npy only with rat7m=False
DataPartition(rat7m) ==
    IF params.COM_augmentation /\ ~rat7m
    THEN sample_COM_augmentation(datadict, datadict_3d, com3d_dict, partition,
             params.COM_aug_radius, params.COM_aug_iters, rng).partition
    ELSE partition

\* args_train and args_valid of _make_data_npy (lines 671-717), as far as
\* they depend on the assembly; the pairs are not passed
NpyArgs(params_, partition_) ==
    [train |-> [cls |-> "PoseDatasetNPY",
                list_IDs |-> partition_.train_sampleIDs,
                aux_labels |-> NoneVal,
                aux |-> params_.use_silhouette,
                temporal_chunk_list |-> TemporalChunkList(params_, partition_, "train_chunks")],
     valid |-> [cls |-> "PoseDatasetNPY",
                list_IDs |-> partition_.valid_sampleIDs,
                aux_labels |-> NoneVal,
                aux |-> params_.use_silhouette,
                temporal_chunk_list |-> TemporalChunkList(params_, partition_, "valid_chunks")],
     params |-> params_]

\* the volumes load_volumes_into_mem returns for a generator over ids, with
\* the channels of the image volume
Volumes(ids, concat) ==
    [ids |-> ids,
     channels |-> IF concat THEN <<"image", "silhouette", "silhouette", "silhouette">>
                  ELSE <<"image">>]

\* _make_data_mem without the reset of y_train_aux, y_valid_aux after the
\* concatenation
MemArgs_AuxKept(params_, partition_, pairs_) ==
    LET segmentation_model == get_segmentation_model(params_)
        concat == segmentation_model # NoneVal /\ params_.use_silhouette_in_volume
        y_aux(ids) == IF segmentation_model # NoneVal
                      THEN [silhouette |-> ids] ELSE NoneVal
        train_ids == partition_.train_sampleIDs
        valid_ids == partition_.valid_sampleIDs
    IN  [train |-> [cls |-> "PoseDatasetFromMem",
                    list_IDs |-> [i \in 1..Len(train_ids) |-> i - 1],
                    data |-> Volumes(train_ids, concat),
                    aux_labels |-> y_aux(train_ids),
                    temporal_chunk_list |-> TemporalChunkList(params_, partition_, "train_chunks"),
                    pairs |-> IF params_.is_social_dataset THEN pairs_.train_pairs ELSE NoneVal],
         valid |-> [cls |-> "PoseDatasetFromMem",
                    list_IDs |-> [i \in 1..Len(valid_ids) |-> i - 1],
                    data |-> Volumes(valid_ids, concat),
                    aux_labels |-> y_aux(valid_ids),
                    temporal_chunk_list |-> TemporalChunkList(params_, partition_, "valid_chunks"),
                    pairs |-> IF params_.is_social_dataset THEN pairs_.valid_pairs ELSE NoneVal],
         params |-> IF concat THEN [params_ EXCEPT !.use_silhouette = FALSE] ELSE params_]

\* _make_data_mem lines 813-909: the silhouette volumes, their concatenation
\* onto the image volumes, and args_train and args_valid
MemArgs(params_, partition_, pairs_) ==
    LET segmentation_model == get_segmentation_model(params_)
        concat == segmentation_model # NoneVal /\ params_.use_silhouette_in_volume
        y_aux(ids) == IF segmentation_model # NoneVal /\ ~concat
                      THEN [silhouette |-> ids] ELSE NoneVal
        train_ids == partition_.train_sampleIDs
        valid_ids == partition_.valid_sampleIDs
    IN  [train |-> [cls |-> "PoseDatasetFromMem",
                    list_IDs |-> [i \in 1..Len(train_ids) |-> i - 1],
                    data |-> Volumes(train_ids, concat),
                    aux_labels |-> y_aux(train_ids),
                    temporal_chunk_list |-> TemporalChunkList(params_, partition_, "train_chunks"),
                    pairs |-> IF params_.is_social_dataset THEN pairs_.train_pairs ELSE NoneVal],
         valid |-> [cls |-> "PoseDatasetFromMem",
                    list_IDs |-> [i \in 1..Len(valid_ids) |-> i - 1],
                    data |-> Volumes(valid_ids, concat),
                    aux_labels |-> y_aux(valid_ids),
                    temporal_chunk_list |-> TemporalChunkList(params_, partition_, "valid_chunks"),
                    pairs |-> IF params_.is_social_dataset THEN pairs_.valid_pairs ELSE NoneVal],
         params |-> IF concat THEN [params_ EXCEPT !.use_silhouette = FALSE] ELSE params_]

\* the datasets _make_data_npy builds, called with the given rat7m
NpyPath(rat7m) == NpyArgs(params, DataPartition(rat7m))
\* the datasets _make_data_mem builds
MemPath == MemArgs(params, DataPartition(FALSE), pairs)

\* _make_data_npy: make_dataset calls it with rat7m=False when use_npy,
\* make_pair with rat7m=True when use_npy, make_rat7m always with rat7m=True;
\* only rat7m=False populates the augmented samples
make_data_npy ==
    /\ pc = "makedata"
    /\ params.use_npy \/ frame = "make_rat7m"
    /\ IF frame = "make_dataset"
       THEN PopulateAugmented
       ELSE UNCHANGED <<samples, datadict, datadict_3d, com3d_dict, partition, rng, hist>>
    /\ IF ChunksMissing(params, DataPartition(frame # "make_dataset"))
       THEN RaiseKeyError
       ELSE /\ out' = [train |-> NpyPath(frame # "make_dataset").train,
                       valid |-> NpyPath(frame # "make_dataset").valid]
            /\ AfterMakeData
            /\ error' = error
    /\ UNCHANGED <<params, base_params, pairs, cameras, exps>>
    /\ UNCHANGED cacheVars

\* _make_data_mem: make_dataset and make_pair call it when not use_npy
make_data_mem ==
    /\ pc = "makedata"
    /\ ~params.use_npy /\ frame # "make_rat7m"
    /\ PopulateAugmented
    /\ params' = MemPath.params
    /\ IF ChunksMissing(params, DataPartition(FALSE))
       THEN RaiseKeyError
       ELSE /\ out' = [train |-> MemPath.train, valid |-> MemPath.valid]
            /\ AfterMakeData
            /\ error' = error
    /\ UNCHANGED <<base_params, pairs, cameras, exps>>
    /\ UNCHANGED cacheVars

\* ------------------------------------------- examination of the npy cache
\* make_rat7m lines 406-443 and make_pair lines 1546-1587.  A cache directory
\* and each of its NPY_DIRNAMES subdirectories exists or not; a subdirectory
\* that exists holds files, file name -> size in bytes.
NPY_DIRNAMES == <<"image_volumes", "grid_volumes", "targets">>
DirNames == Range(NPY_DIRNAMES)

\* f"0_{sampleID}.npy"
NpyFile(sampleID) == <<"0", "_">> \o sampleID \o <<".", "n", "p", "y">>

NoSubdir == [exists |-> FALSE, files |-> EmptyDict]
Subdir(files) == [exists |-> TRUE, files |-> files]
NoDir == [exists |-> FALSE, sub |-> [d \in DirNames |-> NoSubdir]]

\* os.makedirs(dirpath, exist_ok=True)
Makedirs(subdir) == IF subdir.exists THEN subdir ELSE Subdir(EmptyDict)

\* not os.path.exists(dirpath) or len(os.listdir(dirpath)) == 0
SubdirMissing(subdir) == ~subdir.exists \/ DOMAIN subdir.files = {}

\* the body of "for e, name in enumerate(all_exps)": st holds fs and missing_npydir
ExamineDir(st, e, path) ==
    IF ~st.fs[e].exists
    THEN [fs |-> [st.fs EXCEPT ![e] = [exists |-> TRUE,
                                       sub |-> [d \in DirNames |-> Subdir(EmptyDict)]]],
          missing_npydir |-> Put(st.missing_npydir, e, path)]
    ELSE LET bad == {d \in DirNames : SubdirMissing(st.fs[e].sub[d])}
         IN  [fs |-> [st.fs EXCEPT ![e].sub = [d \in DirNames |-> Makedirs(st.fs[e].sub[d])]],
              missing_npydir |-> IF bad = {} THEN st.missing_npydir
                                 ELSE Put(st.missing_npydir, e, path)]

RECURSIVE ExamineDirs(_, _, _)
ExamineDirs(st, es, npydir_) ==
    IF es = <<>> THEN st
    ELSE ExamineDirs(ExamineDir(st, Head(es), npydir_[Head(es)]), Tail(es), npydir_)

\* a test that looks for f"0_{samp}.npy", the whole identifier in the file name
ImageVolumeExists_WholeID(fs_, samp) ==
    NpyFile(samp) \in DOMAIN fs_[ExpOf(samp)].sub["image_volumes"].files

\* os.path.exists(os.path.join(npydir[e], "image_volumes", f"0_{sampleID}.npy"))
ImageVolumeExists(fs_, samp) ==
    LET e == ExpOf(samp)
        sampleID == Split(samp)[2]
    IN  NpyFile(sampleID) \in DOMAIN fs_[e].sub["image_volumes"].files

\* the whole examination: fs after the makedirs, missing_npydir, missing_samples
ExamineNpy(fs_, npydir_, es, samples_) ==
    LET st == ExamineDirs([fs |-> fs_, missing_npydir |-> EmptyDict], es, npydir_)
        first == SelectSeq(samples_, LAMBDA samp : ExpOf(samp) \in DOMAIN st.missing_npydir)
        others == {samp \in Range(samples_) \ Range(first) : ~ImageVolumeExists(st.fs, samp)}
    IN  [fs |-> st.fs,
         missing_npydir |-> [e \in DOMAIN st.missing_npydir \cup {ExpOf(samp) : samp \in others}
                               |-> npydir_[e]],
         missing_samples |-> Sorted(first \o SetToSeq(others))]

\* all_exps of make_rat7m, as far as the model has experiments
Rat7mExps == <<"s1-d1", "s2-d1">>

\* the files a cache subdirectory may hold when the first run starts: nothing,
\* the file of the first frame (written in full or left empty), or every
\* frame's file
FrameFiles == {NpyFile(Str(Frame(i))) : i \in FrameIdx}
FileSets ==
    {EmptyDict}
    \cup {(NpyFile(Str(Frame(1))) :> size) : size \in {0, 8}}
    \cup {[n \in FrameFiles |-> 8]}
SubdirStates == {NoSubdir} \cup {Subdir(files) : files \in FileSets}
DirStates == {NoDir} \cup {[exists |-> TRUE, sub |-> sub] : sub \in [DirNames -> SubdirStates]}
CompleteDir == [exists |-> TRUE, sub |-> [d \in DirNames |-> Subdir([n \in FrameFiles |-> 8])]]

\* the silhouette files of an experiment when the first run starts: none, the
\* one of the first frame, or all
AuxFileSets == {{}, {NpyFile(Str(Frame(1)))}, FrameFiles}

\* make_rat7m or make_pair at the point where it examines the cache: the
\* samples are loaded and the disk is as earlier runs left it.  The two
\* examinations are the same code up to the directory paths; make_pair is
\* started from the disks whose three subdirectories are in the same state.
InitCache ==
    \E fr \in {"make_rat7m", "make_pair"}, d0 \in DirStates, d1 \in {NoDir, CompleteDir},
       sil \in BOOLEAN, a0 \in AuxFileSets, a1 \in {{}, FrameFiles} :
        /\ fr = "make_pair" => \A d \in DirNames : d0.sub[d] = d0.sub["image_volumes"]
        \* silhouettes are tried with make_rat7m on an empty or complete
        \* primary directory
        /\ sil => (fr = "make_rat7m" /\ d0 \in {NoDir, CompleteDir})
        /\ (~sil) => (a0 = {} /\ a1 = {})
        /\ pc = "examine"
        /\ error = "none"
        /\ params = [Params0(IF fr = "make_pair" THEN "pair" ELSE "rat7m", 0, FALSE, FALSE,
                             FALSE, FALSE, TRUE, 4, 1, FALSE) EXCEPT !.use_silhouette = sil]
        /\ base_params = BaseParams0(0)
        /\ samples = LoadSamples
        /\ datadict = LoadDatadict
        /\ datadict_3d = LoadDatadict3d(0)
        /\ com3d_dict = LoadCom3d(0)
        /\ partition = make_data_splits(LoadSamples, {SampleID(1, Frame(i)) : i \in FrameIdx})
        /\ pairs = NoneVal
        /\ rng = 0
        /\ cameras = [e \in ExpIDs |-> e]
        /\ exps = IF fr = "make_pair" THEN <<"trainA">> ELSE <<>>
        /\ frame = fr
        /\ stack = <<>>
        /\ fs = (0 :> d0) @@ (1 :> d1)
        /\ npydir = EmptyDict
        /\ missing_npydir = EmptyDict
        /\ missing_samples = <<>>
        /\ npy_generator = NoneVal
        /\ written = {}
        /\ aux = AuxIdle((0 :> a0) @@ (1 :> a1))
        /\ out = NoneVal
        /\ hist = [Hist0(0, NoneVal) EXCEPT !.fs = (0 :> d0) @@ (1 :> d1)]

ExamineStep(npydir_) ==
    LET r == ExamineNpy(fs, npydir_, SortedNats(DOMAIN npydir_), samples)
    IN  /\ fs' = r.fs
        /\ npydir' = npydir_
        /\ missing_npydir' = r.missing_npydir
        /\ missing_samples' = r.missing_samples
        /\ npy_generator' = NoneVal
        /\ written' = {}
        /\ aux' = AuxIdle(aux.fs)
        /\ hist' = [hist EXCEPT !.fs = fs]
        /\ pc' = "examined"

\* make_rat7m lines 406-443: one directory per experiment
examine_npy_rat7m ==
    /\ pc = "examine"
    /\ frame = "make_rat7m"
    /\ ExamineStep([e \in ExpIDs |-> <<"npy_volumes", Rat7mExps[e + 1]>>])
    /\ UNCHANGED <<error, params, base_params, samples, datadict, datadict_3d, com3d_dict,
                   partition, pairs, rng>>
    /\ UNCHANGED callVars
    /\ UNCHANGED out

\* the experiment indices make_pair makes entries for: 2 * e + j
PairIndices(exps_) == {2 * (e - 1) + j : e \in 1..Len(exps_), j \in {0, 1}}
\* make_pair lines 1508-1524: the recording whose videos (readers and chunk
\* table) are stored under the keys of an experiment index
PairVids(exps_) == [expid \in PairIndices(exps_) |-> exps_[(expid \div 2) + 1]]
\* make_pair lines 1551-1556: npydir, one directory per recording and animal
PairNpydir(exps_) ==
    [expid \in PairIndices(exps_) |->
        <<"npy_folder", exps_[(expid \div 2) + 1], IF expid % 2 = 0 THEN "an1" ELSE "an2">>]

\* make_pair lines 1546-1587: one directory per recording and animal
examine_npy_pair ==
    /\ pc = "examine"
    /\ frame = "make_pair"
    /\ ExamineStep(PairNpydir(exps))
    /\ UNCHANGED <<error, params, base_params, samples, datadict, datadict_3d, com3d_dict,
                   partition, pairs, rng>>
    /\ UNCHANGED callVars
    /\ UNCHANGED out

\* ------------------------------------------- generation of the missing files
\* _make_data_npy lines 585-634 with rat7m=True.  A run is one invocation of
\* the preparer; runs follow each other on the same disk.
MaxRuns == 3

\* a generator built over the whole sample list
NpyGenerator_AllSamples(missing_samples_, samples_) ==
    IF Len(missing_samples_) # 0
    THEN [list_IDs |-> samples_, sampleIDs |-> samples_, closed |-> FALSE]
    ELSE NoneVal

\* lines 617-626: the generator is built over missing_samples, and only when
\* there are any
NpyGenerator(missing_samples_, samples_) ==
    IF Len(missing_samples_) # 0
    THEN [list_IDs |-> missing_samples_, sampleIDs |-> missing_samples_, closed |-> FALSE]
    ELSE NoneVal

\* npy_generator.close_all_readers()
close_all_readers(gen) == [gen EXCEPT !.closed = TRUE]

\* processing.save_volumes_into_npy: for each identifier of the generator one
\* file per subdirectory of missing_npydir[e]; the order of the three np.save
\* of a sample is not fixed here
WriteOrders == {o \in [1..3 -> DirNames] : \A i, j \in 1..3 : o[i] = o[j] => i = j}
SampleWrites(samp, order) ==
    [i \in 1..3 |-> [e |-> ExpOf(samp), dir |-> order[i], name |-> NpyFile(Split(samp)[2])]]

RECURSIVE GenWrites(_, _)
GenWrites(list_IDs, order) ==
    IF list_IDs = <<>> THEN <<>>
    ELSE SampleWrites(Head(list_IDs), order) \o GenWrites(Tail(list_IDs), order)

\* np.save(os.path.join(save_root, dir, name), array)
NpySave(fs_, w) == [fs_ EXCEPT ![w.e].sub[w.dir].files = Put(@, w.name, 8)]

RECURSIVE ApplyWrites(_, _, _)
\* the first k writes of ws
ApplyWrites(fs_, ws, k) ==
    IF k = 0 THEN fs_ ELSE NpySave(ApplyWrites(fs_, ws, k - 1), ws[k])

save_volumes_into_npy(fs_, gen, order, k) == ApplyWrites(fs_, GenWrites(gen.list_IDs, order), k)

\* serve_data_DANNCE.examine_npy_training(params, samples, aux=True): the
\* samples without a silhouette file in the directory of their experiment
examine_npy_training_aux(auxfs, samples_) ==
    Sorted(SelectSeq(samples_,
                     LAMBDA samp : NpyFile(Split(samp)[2]) \notin auxfs[ExpOf(samp)]))

\* processing.save_volumes_into_npy(..., silhouette=True): one silhouette file
\* for each identifier of the generator
AuxWrites(gen) ==
    {[e |-> ExpOf(gen.list_IDs[i]), name |-> NpyFile(Split(gen.list_IDs[i])[2])] :
        i \in 1..Len(gen.list_IDs)}
save_silhouettes_into_npy(auxfs, gen) ==
    [e \in DOMAIN auxfs |-> auxfs[e] \cup {w.name : w \in {v \in AuxWrites(gen) : v.e = e}}]

\* lines 636-669: with a segmentation model the auxiliary files are examined
\* and the missing ones generated; the generator is left as it is
GenerateAux(aux_, params_, samples_) ==
    IF get_segmentation_model(params_) = NoneVal THEN aux_
    ELSE LET missing == examine_npy_training_aux(aux_.fs, samples_)
             gen == NpyGenerator(missing, samples_)
         IN  [fs |-> IF gen = NoneVal THEN aux_.fs ELSE save_silhouettes_into_npy(aux_.fs, gen),
              examined |-> TRUE,
              missing_samples |-> missing,
              generator |-> gen,
              written |-> IF gen = NoneVal THEN {} ELSE AuxWrites(gen)]

cacheFrame == <<error, params, base_params, samples, datadict, datadict_3d, com3d_dict,
                partition, pairs, rng, npydir, missing_npydir, missing_samples>>

\* lines 585-669, run to the end.  The source rebinds npydir, missing_npydir,
\* missing_samples and npy_generator in the auxiliary half; here the results
\* of the two halves are kept apart.
generate_npy ==
    /\ pc = "examined"
    /\ LET gen == NpyGenerator(missing_samples, samples)
       IN  IF gen = NoneVal
           THEN /\ fs' = fs
                /\ written' = {}
                /\ npy_generator' = NoneVal
           ELSE \E order \in WriteOrders :
                LET ws == GenWrites(gen.list_IDs, order)
                IN  /\ fs' = save_volumes_into_npy(fs, gen, order, Len(ws))
                    /\ written' = Range(ws)
                    /\ npy_generator' = close_all_readers(gen)
    /\ aux' = GenerateAux(aux, params, samples)
    /\ pc' = "generated"
    /\ hist' = [hist EXCEPT !.cur = "complete", !.gen_fs = fs, !.gen_aux = aux.fs]
    /\ UNCHANGED cacheFrame
    /\ UNCHANGED callVars
    /\ UNCHANGED out

\* the process is stopped while save_volumes_into_npy runs, after k of its
\* writes (followed here for the first run on a disk)
generate_interrupted ==
    /\ pc = "examined"
    /\ hist.prev = "none"
    /\ Len(missing_samples) # 0
    /\ LET gen == NpyGenerator(missing_samples, samples)
       IN  \E order \in WriteOrders :
           LET ws == GenWrites(gen.list_IDs, order)
           IN  \E k \in 0..(Len(ws) - 1) :
                /\ fs' = save_volumes_into_npy(fs, gen, order, k)
                /\ written' = {ws[i] : i \in 1..k}
                /\ npy_generator' = gen
    /\ aux' = aux
    /\ pc' = "interrupted"
    /\ hist' = [hist EXCEPT !.cur = "interrupted", !.gen_fs = fs]
    /\ UNCHANGED cacheFrame
    /\ UNCHANGED callVars
    /\ UNCHANGED out

\* every sample of the sample set has its three files, none of them empty
CacheComplete(fs_, samples_) ==
    \A samp \in Range(samples_) : \A d \in DirNames :
        /\ fs_[ExpOf(samp)].exists
        /\ fs_[ExpOf(samp)].sub[d].exists
        /\ NpyFile(Split(samp)[2]) \in DOMAIN fs_[ExpOf(samp)].sub[d].files
        /\ fs_[ExpOf(samp)].sub[d].files[NpyFile(Split(samp)[2])] > 0

\* os.remove
Remove(files, name) == [n \in DOMAIN files \ {name} |-> files[n]]

\* between two runs somebody deletes one file of one sample from a complete
\* cache (one deletion is followed)
delete_file ==
    /\ pc = "generated"
    /\ hist.cur = "complete"
    /\ hist.deleted = NoneVal
    /\ CacheComplete(fs, samples)
    /\ \E samp \in Range(samples), d \in DirNames :
        /\ fs' = [fs EXCEPT ![ExpOf(samp)].sub[d].files = Remove(@, NpyFile(Split(samp)[2]))]
        /\ hist' = [hist EXCEPT !.cur = "deleted", !.deleted = [samp |-> samp, dir |-> d]]
    /\ UNCHANGED <<pc, npy_generator, written, aux>>
    /\ UNCHANGED cacheFrame
    /\ UNCHANGED callVars
    /\ UNCHANGED out

\* the preparer is started again on the same sample set and the same disk
next_run ==
    /\ pc \in {"generated", "interrupted"}
    /\ hist.run < MaxRuns
    /\ pc' = "examine"
    /\ hist' = [hist EXCEPT !.run = @ + 1, !.prev = hist.cur, !.prev_missing = missing_samples]
    /\ UNCHANGED <<fs, npy_generator, written, aux>>
    /\ UNCHANGED cacheFrame
    /\ UNCHANGED callVars
    /\ UNCHANGED out

NextCache ==
    \/ examine_npy_rat7m
    \/ examine_npy_pair
    \/ generate_npy
    \/ generate_interrupted
    \/ delete_file
    \/ next_run

SpecCache == InitCache /\ [][NextCache]_vars

\* ------------------------------------------------------------------------
\* make_dataset_inference
\* ------------------------------------------------------------------------

\* most animals of a social recording
MaxInstances == 3

\* a COM array of shape (3, n) as its columns, a COM vector of shape (3,) as
\* one column
ComArray(cols_) == [ndim |-> 2, cols |-> cols_]
ComVector(col) == [ndim |-> 1, cols |-> <<col>>]
\* arr[:, i]
Column(arr, i) == ComVector(arr.cols[i + 1])

\* the COM of instance i of frame f of experiment e
InferenceCom(e, f, i) == <<16 * f, 4 * i, 8 * e>>

\* processing.do_COM_load and serve_data_DANNCE.add_experiment, lines 944-979:
\* the samples of the experiments one after the other, and for a social
\* dataset one COM column per instance
InferenceSamples(experiment) ==
    Flatten([k \in 1..Len(experiment) |->
                [i \in 1..NumFrames |-> SampleID(experiment[k], Frame(i))]])
InferenceCom3d(experiment, social, n_instances) ==
    [id \in Range(InferenceSamples(experiment)) |->
        LET e == ExpOf(id)
            f == ParseInt(Split(id)[2])
        IN  IF social THEN ComArray([i \in 1..n_instances |-> InferenceCom(e, f, i - 1)])
            ELSE ComVector(InferenceCom(e, f, 0))]

RECURSIVE SplitInstances(_, _, _, _, _)
\* lines 1012-1014: for i in range(i, n_instances)
SplitInstances(com, sample, sampleID, i, n_instances) ==
    IF i >= n_instances THEN com
    ELSE LET new_sample == Str(i) \o <<"_">> \o sampleID
         IN  SplitInstances(Put(com, new_sample, Column(com[sample], i)),
                            sample, sampleID, i + 1, n_instances)

RECURSIVE SplitInstanceComs(_, _, _, _)
\* lines 1008-1015: for sample in samples, from the j-th on
SplitInstanceComs(com, samples_, j, n_instances) ==
    IF j > Len(samples_) THEN com
    ELSE LET sample == samples_[j]
             expID == Split(sample)[1]
             sampleID == Split(sample)[2]
         IN  IF ParseInt(expID) # 0
             THEN SplitInstanceComs(com, samples_, j + 1, n_instances)
             ELSE LET split == SplitInstances(com, sample, sampleID, 1, n_instances)
                  IN  SplitInstanceComs(Put(split, sample, Column(split[sample], 0)),
                                        samples_, j + 1, n_instances)

\* a prediction run, before make_dataset_inference
InitInference ==
    \E soc \in BOOLEAN, n \in 1..MaxInstances, ne \in 1..2 :
        /\ (~soc) => n = 1
        /\ pc = "inference"
        /\ error = "none"
        /\ params = [Params0("label3d", 0, soc, FALSE, FALSE, FALSE, FALSE, 4, 1, FALSE)
                        EXCEPT !.n_instances = n, !.experiment = [k \in 1..ne |-> k - 1]]
        /\ base_params = BaseParams0(0)
        /\ samples = <<>>
        /\ datadict = EmptyDict
        /\ datadict_3d = EmptyDict
        /\ com3d_dict = EmptyDict
        /\ partition = EmptyDict
        /\ pairs = NoneVal
        /\ rng = 0
        /\ cameras = EmptyDict
        /\ exps = <<>>
        /\ frame = "predict"
        /\ stack = <<>>
        /\ NoCache
        /\ hist = [Hist0(0, NoneVal) EXCEPT !.loaded = {}]

\* make_dataset_inference, lines 937-1020
make_dataset_inference ==
    /\ pc = "inference"
    /\ LET loaded == InferenceSamples(params.experiment)
           com == InferenceCom3d(params.experiment, params.is_social_dataset,
                                 params.n_instances)
       IN  /\ samples' = loaded
           /\ datadict' = [id \in Range(loaded) |->
                              [exp |-> ExpOf(id), frame |-> ParseInt(Split(id)[2])]]
           /\ com3d_dict' = IF params.is_social_dataset
                            THEN SplitInstanceComs(com, loaded, 1, params.n_instances)
                            ELSE com
           /\ partition' = [valid_sampleIDs |-> loaded]
           /\ hist' = [hist EXCEPT !.loaded = Range(loaded), !.com_loaded = com]
    /\ pc' = "inferred"
    /\ UNCHANGED <<error, params, base_params, datadict_3d, pairs, rng>>
    /\ UNCHANGED callVars
    /\ UNCHANGED cacheVars
    /\ UNCHANGED out

Init == InitDataset \/ InitPair \/ InitRat7m \/ InitInference

Next ==
    \/ set_dataset
    \/ make_dataset_split
    \/ make_dataset_big_volume
    \/ make_dataset_joint
    \/ make_pair_convert
    \/ make_rat7m_split
    \/ make_data_npy
    \/ make_data_mem
    \/ make_dataset_inference

Spec == Init /\ [][Next]_vars

\* ================================================================ properties
Count(seq, x) == Cardinality({i \in 1..Len(seq) : seq[i] = x})
Abs(n) == IF n < 0 THEN 0 - n ELSE n
TrainIDs == Range(partition.train_sampleIDs)
ValidIDs == Range(partition.valid_sampleIDs)
\* the preparer has a partition in hand
Split_ == pc \in {"big_volume", "joint", "makedata", "done"}
Merged == hist.merge # NoneVal
Augmented == hist.aug # NoneVal
\* identifiers the augmentation added
Synthetic == DOMAIN com3d_dict \ DOMAIN hist.aug.com3d_dict

\* C1: once a preparer has split the samples, and through the big-volume
\* merge, the joint volumes, the COM augmentation and a make_pair called from
\* make_rat7m, no identifier is both a training and a validation identifier
\* (of the preparer running and of the one that waits for it).
C1_TrainValidDisjoint ==
    /\ Split_ => TrainIDs \cap ValidIDs = {}
    /\ \A i \in 1..Len(stack) :
         Range(stack[i].partition.train_sampleIDs)
            \cap Range(stack[i].partition.valid_sampleIDs) = {}

\* make_dataset has merged pairs into big volumes, augmented the training
\* samples and finished with both splits populated
C1_Witness ==
    /\ pc = "done"
    /\ Merged
    /\ Augmented
    /\ Synthetic # {}
    /\ TrainIDs # {}
    /\ ValidIDs # {}

\* -------------------------------------------------------- C2: completeness
NonAug(S) == {id \in S : ~IsComaug(id)}

\* C2: when a preparer is done, its training and
\* validation identifiers without the "-comaug" ones are exactly the samples
\* it loaded, whatever the configuration (and the same for a make_rat7m that
\* waits for the make_pair it called).
C2_UnionIsLoaded ==
    pc = "done" =>
        /\ NonAug(TrainIDs \cup ValidIDs) = hist.loaded
        /\ \A i \in 1..Len(stack) :
             Range(stack[i].partition.train_sampleIDs)
                \cup Range(stack[i].partition.valid_sampleIDs) = stack[i].loaded

\* ----------------------------------------------- C3 - C6: COM augmentation
\* the identifier a synthetic identifier was derived from: what precedes "-"
Stem(id) == SubSeq(id, 1, (CHOOSE i \in 1..Len(id) :
                              id[i] = "-" /\ \A j \in 1..(i - 1) : id[j] # "-") - 1)
DerivedFrom(s) == {id \in Synthetic : Stem(id) = s}
Labeled(pose) == \E a \in DOMAIN pose : \E k \in DOMAIN pose[a] : pose[a][k] # NaN
OldTrain == hist.aug.partition.train_sampleIDs
OldValid == hist.aug.partition.valid_sampleIDs

\* C3: an augmentation with aug_iters = m adds m identifiers for each training
\* sample whose Pose3D has a value that is not NaN, none for a training sample
\* that is NaN throughout and none for a validation sample; the training list
\* grows by m times the number of labeled training entries.
C3_AugmentationCount ==
    (pc = "done" /\ Augmented) =>
        LET m == params.COM_aug_iters
            labeled(s) == Labeled(hist.aug.datadict_3d[s])
        IN  /\ \A s \in Range(OldTrain) :
                 Cardinality(DerivedFrom(s)) = IF labeled(s) THEN m ELSE 0
            /\ \A s \in Range(OldValid) \ Range(OldTrain) : DerivedFrom(s) = {}
            /\ \A id \in Synthetic : Stem(id) \in Range(OldTrain)
            /\ Len(partition.train_sampleIDs) - Len(OldTrain)
                 = m * Cardinality({j \in 1..Len(OldTrain) : labeled(OldTrain[j])})

\* two iterations over a training split that holds a sample with a partly NaN
\* pose or a full one, and one that is NaN throughout, next to validation samples
C3_Witness ==
    /\ pc = "done"
    /\ Augmented
    /\ params.COM_aug_iters = 2
    /\ \E s \in Range(OldTrain) : AllNaN(hist.aug.datadict_3d[s])
    /\ \E s \in Range(OldTrain) : Labeled(hist.aug.datadict_3d[s])
    /\ OldValid # <<>>

Offset(id, a) == com3d_dict[id][a] - hist.aug.com3d_dict[Stem(id)][a]

\* C4: every coordinate of a synthetic COM is within perturb_radius of the
\* same coordinate of the COM it was derived from.
C4_OffsetWithinRadius ==
    (pc = "done" /\ Augmented) =>
        \A id \in Synthetic : \A a \in 1..3 : Abs(Offset(id, a)) <= params.COM_aug_radius

\* a synthetic COM whose axes were moved by different amounts, one of them by
\* the whole radius
C4_Witness ==
    /\ pc = "done"
    /\ Augmented
    /\ \E id \in Synthetic :
         /\ \E a, b \in 1..3 : Offset(id, a) # Offset(id, b)
         /\ \E a \in 1..3 : Abs(Offset(id, a)) = params.COM_aug_radius

\* C5: the augmentation leaves the validation list as it was, every "-comaug"
\* identifier is a training and never a validation identifier, and the
\* returned samples are the old training list, the new identifiers and the
\* validation list together.
C5_ValidationUntouched ==
    (pc = "done" /\ Augmented) =>
        /\ partition.valid_sampleIDs = OldValid
        /\ \A id \in Synthetic \cup {x \in Range(samples) \cup TrainIDs \cup ValidIDs :
                                        IsComaug(x)} :
             id \in TrainIDs /\ id \notin ValidIDs
        /\ \A id \in Range(samples) \cup TrainIDs \cup ValidIDs :
             /\ Count(samples, id) = Count(partition.train_sampleIDs, id) + Count(OldValid, id)
             /\ id \notin Synthetic => Count(partition.train_sampleIDs, id) = Count(OldTrain, id)

\* an augmentation that added identifiers while the validation split was not empty
C5_Witness ==
    /\ pc = "done"
    /\ Augmented
    /\ Synthetic # {}
    /\ OldValid # <<>>
    /\ Len(samples) > Len(OldTrain) + Len(OldValid)

\* C6: the augmentation changes no entry the three dictionaries had before it,
\* and the Pose3D of a synthetic identifier is the Pose3D of its source.
C6_SourceEntriesKept ==
    (pc = "done" /\ Augmented) =>
        /\ \A id \in DOMAIN hist.aug.com3d_dict : com3d_dict[id] = hist.aug.com3d_dict[id]
        /\ \A id \in DOMAIN hist.aug.datadict_3d : datadict_3d[id] = hist.aug.datadict_3d[id]
        /\ \A id \in DOMAIN hist.aug.datadict : datadict[id] = hist.aug.datadict[id]
        /\ \A id \in Synthetic : datadict_3d[id] = hist.aug.datadict_3d[Stem(id)]
        /\ \A id \in Synthetic : datadict[id] = hist.aug.datadict[Stem(id)]

\* a synthetic identifier whose COM differs from the COM of its source
C6_Witness ==
    /\ pc = "done"
    /\ Augmented
    /\ \E id \in Synthetic : com3d_dict[id] # com3d_dict[Stem(id)]

\* --------------------------------------------- C7 - C9: the social policies
\* the pairs the merge went through, both keys together
MergePairs == Range(hist.merge.pairs.train_pairs) \cup Range(hist.merge.pairs.valid_pairs)
\* twice the distance of the two COMs of a pair before the merge, squared
Dist2x2(pr) ==
    LET u == hist.merge.com3d_dict[pr[1]]
        v == hist.merge.com3d_dict[pr[2]]
    IN  4 * ((u[1] - v[1]) * (u[1] - v[1]) + (u[2] - v[2]) * (u[2] - v[2])
             + (u[3] - v[3]) * (u[3] - v[3]))
\* the grid extent as configured, squared
Extent2 == (hist.vmax - hist.vmin) * (hist.vmax - hist.vmin)
WithinThreshold(pr) == hist.vmax >= hist.vmin /\ Dist2x2(pr) <= Extent2
\* the merge kept the pair as one sample under its first identifier
MergedAs(pr) == pr[1] \in DOMAIN com3d_dict /\ pr[1] \in TrainIDs \cup ValidIDs

\* C7: the big-volume policy merges a pair exactly when the distance of its
\* two COMs is at most (vmax - vmin) / 2, vmin and vmax as they were configured.
C7_MergedIffWithinThreshold ==
    Merged => \A pr \in MergePairs : MergedAs(pr) <=> WithinThreshold(pr)

\* a merge that met a pair exactly at the threshold and a pair beyond it
C7_Witness ==
    /\ Merged
    /\ \E pr \in MergePairs : Dist2x2(pr) = Extent2 /\ MergedAs(pr)
    /\ \E pr \in MergePairs : Dist2x2(pr) > Extent2 /\ ~MergedAs(pr)

\* C8 as the spec states it: a pair farther apart than the threshold is not
\* merged, and both its identifiers stay in the partition, each with the COM
\* and the Pose3D it had.
C8_UnmergedPairKept ==
    Merged => \A pr \in MergePairs : ~WithinThreshold(pr) =>
        \A v \in {pr[1], pr[2]} :
            /\ v \in TrainIDs \cup ValidIDs
            /\ v \in DOMAIN com3d_dict
            /\ com3d_dict[v] = hist.merge.com3d_dict[v]
            /\ v \in DOMAIN datadict_3d
            /\ datadict_3d[v] = hist.merge.datadict_3d[v]

\* C9 as the spec states it: the big-volume merge and the joint volumes never
\* both run, n_channels_out is doubled once at most, and prepare_joint_volumes
\* is not called once the merge has discarded the pairs.
C9_PoliciesExclusive ==
    /\ ~(Merged /\ hist.joint # "no")
    /\ params.n_channels_out \in {NKeypoints, 2 * NKeypoints}
    /\ base_params.n_channels_out \in {NKeypoints, 2 * NKeypoints}

\* ------------------------------------------------- C10: cache examination
\* the three files of a sample were on disk, none of them empty, when the
\* examination began
CachedInFull(samp) ==
    LET dir == hist.fs[ExpOf(samp)]
        name == NpyFile(Split(samp)[2])
    IN  /\ dir.exists
        /\ \A d \in DirNames :
             /\ dir.sub[d].exists
             /\ name \in DOMAIN dir.sub[d].files
             /\ dir.sub[d].files[name] > 0

\* C10 as the spec states it: the examination classifies a sample as missing
\* whenever one of its three files is absent or empty, and as present only
\* when all three exist and none is empty.
C10_MissingIffNotCachedInFull ==
    pc = "examined" =>
        \A samp \in Range(samples) : samp \in Range(missing_samples) <=> ~CachedInFull(samp)

\* ------------------------------------------- C11 - C14: cache generation
\* the three cache files of a sample
SampleFiles(samp) ==
    {[e |-> ExpOf(samp), dir |-> d, name |-> NpyFile(Split(samp)[2])] : d \in DirNames}
\* what a file holds on a disk: <<size>>, or <<>> when it is not there
FileOn(fs_, w) ==
    IF fs_[w.e].exists /\ fs_[w.e].sub[w.dir].exists
       /\ w.name \in DOMAIN fs_[w.e].sub[w.dir].files
    THEN <<fs_[w.e].sub[w.dir].files[w.name]>>
    ELSE <<>>
\* the generation step of this run is over (to its end or stopped)
Generated == pc \in {"generated", "interrupted"} /\ hist.cur \in {"complete", "interrupted"}

\* C11: the generator exists exactly when samples were reported missing and
\* lists exactly those; the generation writes no file of a sample that was
\* not reported missing and leaves those files as they were.
C11_OnlyMissingGenerated ==
    Generated =>
        /\ (npy_generator # NoneVal) <=> (missing_samples # <<>>)
        /\ npy_generator # NoneVal => npy_generator.list_IDs = missing_samples
        /\ \A samp \in Range(samples) \ Range(missing_samples) : \A w \in SampleFiles(samp) :
             w \notin written /\ FileOn(fs, w) = FileOn(hist.gen_fs, w)

\* a generation that ran to its end while some samples were reported missing
\* and others, with files on the disk, were not
C11_Witness ==
    /\ pc = "generated"
    /\ hist.cur = "complete"
    /\ written # {}
    /\ \E samp \in Range(samples) \ Range(missing_samples) :
         \A w \in SampleFiles(samp) : FileOn(fs, w) # <<>>

\* C12: in the run that follows a run whose examination and generation ran to
\* the end (and no deletion in between), the examination reports no sample
\* missing and creates nothing, no generator is built and nothing is written.
C12_SecondPassIdle ==
    hist.prev = "complete" =>
        /\ pc \in {"examined", "generated", "interrupted"} => missing_samples = <<>>
        /\ pc = "examined" => fs = hist.fs
        /\ pc = "generated" => npy_generator = NoneVal /\ written = {}
        /\ (pc = "generated" /\ hist.cur = "complete") => fs = hist.gen_fs
        /\ pc # "interrupted"

\* the second run is over, after a first run that had samples to generate
C12_Witness ==
    /\ pc = "generated"
    /\ hist.run = 2
    /\ hist.prev = "complete"
    /\ hist.prev_missing # <<>>

\* C13: after one file of one sample was deleted from a complete cache, the
\* next examination reports that sample and no other, and the generation that
\* follows writes the files of that sample only.
C13_DeletedFileDetected ==
    hist.prev = "deleted" =>
        /\ pc = "examined" => Range(missing_samples) = {hist.deleted.samp}
        /\ (pc = "generated" /\ hist.cur = "complete") =>
              written = SampleFiles(hist.deleted.samp)

\* C14: in the run that follows a run stopped during its generation, every
\* sample the stopped run had to generate and that lacks one of its three
\* files is reported missing, and when the run is over each of them has its
\* three files.
C14_InterruptedPassRecovered ==
    hist.prev = "interrupted" =>
        /\ pc = "examined" =>
              \A samp \in Range(hist.prev_missing) :
                 (\E w \in SampleFiles(samp) : FileOn(hist.fs, w) = <<>>)
                    => samp \in Range(missing_samples)
        /\ (pc = "generated" /\ hist.cur = "complete") =>
              \A samp \in Range(hist.prev_missing) :
                 \A w \in SampleFiles(samp) : FileOn(fs, w) # <<>>

\* ------------------------------------------- C15, C20: identifiers drawn twice
\* the sample list holds an identifier at two positions
HasDup(seq) == \E i, j \in 1..Len(seq) : i < j /\ seq[i] = seq[j]
\* make_pair is past its two conversions
PairConverted == frame = "make_pair" /\ pc \in {"makedata", "done"}

\* C15: the sample list _convert_pair_to_label3d assembles holds no
\* identifier twice, and an identifier stands for one experiment index
\* (animal) only.
C15_SampleIDsUnique ==
    PairConverted =>
        /\ ~HasDup(samples)
        /\ \A id \in Range(samples) : datadict[id].exp = ExpOf(id)

\* C20: an assembly in which two samples got the same identifier ends with a
\* duplicate-identifier error; it does not go on with one dictionary entry
\* standing for both samples.
C20_DuplicateRaises ==
    (frame = "make_pair" /\ pc # "pair_convert"
       /\ Cardinality(DOMAIN datadict) < Len(samples))
        => pc = "raised" /\ error = "DuplicateSampleID"

\* ------------------------------------------- C16: identifiers decode back
\* e, sampleID = int(samp.split("_")[0]), samp.split("_")[1]
Decode(samp) == [e |-> ParseInt(Split(samp)[1]), sampleID |-> Split(samp)[2]]

\* C16: every identifier in use splits on "_" into exactly two parts, the
\* first parses to the experiment index it was encoded from and, for an
\* identifier without "-comaug" tag, the second is the frame token it was
\* encoded from; with the tag the experiment index is still the first part.
C16_DecodeRoundTrip ==
    \A id \in DOMAIN datadict :
        /\ Len(Split(id)) = 2
        /\ IsDigits(Split(id)[1])
        /\ Decode(id).e = datadict[id].exp
        /\ ~IsComaug(id) => Decode(id).sampleID = Str(datadict[id].frame)
        /\ SampleID(Decode(id).e, datadict[id].frame) = (IF IsComaug(id) THEN Stem(id) ELSE id)

\* the assembly is over with a tagged identifier of a two-digit frame of the
\* second experiment
C16_Witness ==
    /\ pc = "done"
    /\ \E id \in DOMAIN datadict :
         IsComaug(id) /\ datadict[id].frame >= 10 /\ datadict[id].exp = 1

\* ------------------------------------------- C17: poses whole or unset
\* entirely valid or entirely NaN
Whole(pose) == AllNaN(pose) \/ ~AnyNaN(pose)
\* every annotated pose handed to the assembly is whole
InputWhole == \A e \in ExpIDs, i \in FrameIdx : KindOf(hist.scene, e, i) # "partial"

\* C17: when the assembly is over, and every annotated pose it was given was
\* entirely valid or entirely NaN, every pose of datadict_3d is entirely
\* valid or entirely NaN.
C17_PoseWholeOrUnset ==
    (pc = "done" /\ InputWhole) =>
        \A id \in DOMAIN datadict_3d : Whole(datadict_3d[id])

\* ------------------------------------------- C18, C19: the datasets handed on
\* the datasets of the last call are those of _make_data_mem
MemBuilt == out # NoneVal /\ out.train.cls = "PoseDatasetFromMem"
\* the image volumes carry silhouette channels
Concatenated(args) == "silhouette" \in Range(args.data.channels)

Served(args) ==
    IF args.cls = "PoseDatasetFromMem"
    THEN [i \in 1..Len(args.list_IDs) |-> args.data.ids[args.list_IDs[i] + 1]]
    ELSE args.list_IDs
\* the silhouette is served as a separate target
AuxTarget(args) ==
    IF args.cls = "PoseDatasetFromMem" THEN args.aux_labels # NoneVal ELSE args.aux
\* what a consumer of a dataset can tell
Handed(args) ==
    [samples |-> Served(args), temporal_chunk_list |-> args.temporal_chunk_list,
     aux_target |-> AuxTarget(args)]

\* C19: where make_dataset or make_pair is about to build its datasets, the
\* two paths would hand on the same sample sequences, the same temporal chunk
\* lists and the same choice of a separate silhouette target.
C19_PathsAgree ==
    (pc = "makedata" /\ frame \in {"make_dataset", "make_pair"}) =>
        /\ Handed(NpyPath(frame # "make_dataset").train) = Handed(MemPath.train)
        /\ Handed(NpyPath(frame # "make_dataset").valid) = Handed(MemPath.valid)

\* ------------------------------------------- C22, C23: the big-volume merge
\* the merge has just run
JustMerged == pc = "joint" /\ Merged
\* the pairs the merge kept
MergedPairs == {pr \in MergePairs : WithinThreshold(pr)}
\* COM and Pose3D of an instance before the merge
AnchorOf(v) == hist.merge.com3d_dict[v]
PoseBefore(v) == hist.merge.datadict_3d[v]
\* the instance whose pose comes first: the one with the strictly smaller COM
\* coordinate on axis 0, the second one when there is none
PrimaryOf(pr) == IF AnchorOf(pr[1])[1] < AnchorOf(pr[2])[1] THEN pr[1] ELSE pr[2]
SecondaryOf(pr) == IF AnchorOf(pr[1])[1] < AnchorOf(pr[2])[1] THEN pr[2] ELSE pr[1]
\* keypoint k of a pose, its three coordinates
Keypoint(pose, k) == [a \in 1..3 |-> pose[a][k]]
NaNKeypoint == [a \in 1..3 |-> NaN]
\* the merged sample is stored under the first identifier at the midpoint
StoredAtMidpoint(pr) ==
    /\ pr[1] \in DOMAIN datadict_3d
    /\ pr[1] \in DOMAIN com3d_dict
    /\ pr[2] \notin DOMAIN datadict_3d
    /\ \A a \in 1..3 : 2 * com3d_dict[pr[1]][a] = AnchorOf(pr[1])[a] + AnchorOf(pr[2])[a]
    /\ \A a \in 1..3 : Len(datadict_3d[pr[1]][a]) = 2 * NKeypoints

ConcatKeypoint(pr, k) ==
    IF k <= NKeypoints THEN Keypoint(PoseBefore(PrimaryOf(pr)), k)
    ELSE Keypoint(PoseBefore(SecondaryOf(pr)), k - NKeypoints)
\* a keypoint with its three coordinates within [lo, hi] of a centre
InsideExtent(kp, centre, lo, hi) ==
    \A a \in 1..3 : kp[a] # NaN /\ kp[a][1] - centre[a] >= lo /\ kp[a][1] - centre[a] <= hi

\* C23: after the big-volume merge, with t = (vmax - vmin) / 2 of the extent
\* as configured, params and base_params hold the extent
\* [vmin - t/2, vmax + t/2] and twice the keypoints, the merged poses keep
\* exactly the keypoints within that extent of the merged COM, the pair list
\* is None and is_social_dataset is False.
C23_ExtentExpanded ==
    JustMerged =>
        /\ 4 * params.vmin = 4 * hist.vmin - (hist.vmax - hist.vmin)
        /\ 4 * params.vmax = 4 * hist.vmax + (hist.vmax - hist.vmin)
        /\ base_params.vmin = params.vmin
        /\ base_params.vmax = params.vmax
        /\ params.n_channels_out = 2 * NKeypoints
        /\ base_params.n_channels_out = 2 * NKeypoints
        /\ pairs = NoneVal
        /\ ~params.is_social_dataset
        /\ \A pr \in MergedPairs : \A k \in 1..(2 * NKeypoints) :
             Keypoint(datadict_3d[pr[1]], k) # NaNKeypoint
                <=> InsideExtent(ConcatKeypoint(pr, k), com3d_dict[pr[1]],
                                 params.vmin, params.vmax)

\* a merge that kept a keypoint beyond the extent as configured, within the
\* enlarged one
C23_Witness ==
    /\ JustMerged
    /\ params.vmin < hist.vmin
    /\ \E pr \in MergedPairs : \E k \in 1..(2 * NKeypoints) :
         /\ Keypoint(datadict_3d[pr[1]], k) # NaNKeypoint
         /\ ~InsideExtent(ConcatKeypoint(pr, k), com3d_dict[pr[1]], hist.vmin, hist.vmax)

\* ------------------------------------------- C24: synthetic identifiers
\* the training list the augmentation started from and the one it returned
TrainBefore == hist.aug.partition.train_sampleIDs
TrainAfter == partition.train_sampleIDs
\* the augmentation has run on a training list without duplicates
AugmentedClean == Augmented /\ pc \in {"makedata", "done", "pair_convert"} /\ ~HasDup(TrainBefore)

\* C24: after one call of sample_COM_augmentation on a training list without
\* duplicates, the tagged identifiers of the returned training list are
\* pairwise distinct, none of them was an identifier or a dictionary key
\* before the call, and each dictionary has one more key for each identifier
\* the call added.
C24_SyntheticIDsFresh ==
    AugmentedClean =>
        /\ \A i, j \in 1..Len(TrainAfter) :
              (IsComaug(TrainAfter[i]) /\ TrainAfter[i] = TrainAfter[j]) => i = j
        /\ \A i \in 1..Len(TrainAfter) : IsComaug(TrainAfter[i]) =>
              /\ TrainAfter[i] \notin Range(hist.aug.samples)
              /\ TrainAfter[i] \notin Range(TrainBefore)
              /\ TrainAfter[i] \notin Range(hist.aug.partition.valid_sampleIDs)
              /\ TrainAfter[i] \notin DOMAIN hist.aug.datadict
              /\ TrainAfter[i] \notin DOMAIN hist.aug.datadict_3d
              /\ TrainAfter[i] \notin DOMAIN hist.aug.com3d_dict
        /\ Cardinality(DOMAIN com3d_dict)
              = Cardinality(DOMAIN hist.aug.com3d_dict) + Len(TrainAfter) - Len(TrainBefore)
        /\ Cardinality(DOMAIN datadict_3d)
              = Cardinality(DOMAIN hist.aug.datadict_3d) + Len(TrainAfter) - Len(TrainBefore)
        /\ Cardinality(DOMAIN datadict)
              = Cardinality(DOMAIN hist.aug.datadict) + Len(TrainAfter) - Len(TrainBefore)

\* two rounds of augmentation over at least two labeled training samples
C24_Witness ==
    /\ AugmentedClean
    /\ params.COM_aug_iters = 2
    /\ Len(TrainAfter) >= Len(TrainBefore) + 4

\* ------------------------------------------- C30: undefined entries
\* C30: no preparer ends on the read of an entry that is not there: a chunk
\* list missing from partition under use_temporal (KeyError), or pairs read
\* while it is None (AttributeError).
C30_NoUndefinedRead ==
    ~(pc = "raised" /\ error \in {"KeyError", "AttributeError"})

\* ------------------------------------------- C25: what the cache path examines
\* make_dataset has run _make_data_npy to its end; samples is the list
\* examine_npy_training was given
NpyDatasetBuilt ==
    /\ frame = "make_dataset"
    /\ pc = "done"
    /\ out # NoneVal
    /\ out.train.cls = "PoseDatasetNPY"

\* C25: on the cache path of make_dataset, every identifier of the training
\* and of the validation dataset is in the sample list the cache examination
\* was given.
C25_DatasetSamplesExamined ==
    NpyDatasetBuilt =>
        Range(out.train.list_IDs) \cup Range(out.valid.list_IDs) \subseteq Range(samples)

\* ------------------------------------------- C28: what an index stands for
\* C28: after the conversions of make_pair, for every sample the videos, the
\* camera parameters and the cache directory stored under its experiment
\* index are those of the recording folder, and animal, it was drawn from.
C28_IndexMatchesRecording ==
    PairConverted =>
        \A id \in Range(samples) :
            /\ ExpOf(id) \in DOMAIN cameras
            /\ cameras[ExpOf(id)] = datadict[id].folder
            /\ ExpOf(id) \in PairIndices(exps)
            /\ PairVids(exps)[ExpOf(id)] = datadict[id].folder
            /\ PairNpydir(exps)[ExpOf(id)]
                  = <<"npy_folder", datadict[id].folder, datadict[id].animal>>

\* ------------------------------------------- C27: the choice of the preparer
\* C27: set_dataset returns, without raising, make_rat7m for "rat7m" and
\* "rat7m+pair", make_pair for "pair" and make_dataset for any other name
\* (make_rat7m goes on to call make_pair when merge_pair is set).
C27_PreparerChosen ==
    (pc # "set_dataset" /\ frame # "predict") =>
        /\ error # "UnboundLocalError"
        /\ params.dataset \in {"rat7m", "rat7m+pair"} => frame \in {"make_rat7m", "make_pair"}
        /\ params.dataset = "pair" => frame = "make_pair"
        /\ params.dataset \notin {"rat7m", "rat7m+pair", "pair"} => frame = "make_dataset"

\* ------------------------------------------------------------------------
\* Primary and auxiliary halves of _make_data_npy
\* ------------------------------------------------------------------------

\* the silhouette file of a sample
AuxFile(samp) == [e |-> ExpOf(samp), name |-> NpyFile(Split(samp)[2])]
\* the samples without their silhouette file on a disk
AuxAbsent(auxfs) == {samp \in Range(samples) : AuxFile(samp).name \notin auxfs[ExpOf(samp)]}
\* _make_data_npy ran to its end in this run
NpyPassOver == pc = "generated" /\ hist.cur = "complete"

\* C21: the auxiliary examination runs exactly when a segmentation model is
\* configured; the auxiliary generator exists exactly when that examination
\* reported samples and lists exactly the samples whose silhouette file was
\* missing; silhouette files are written for those samples only, primary
\* files for the samples of the primary report only, and without a
\* segmentation model the silhouette files stay as they were.
C21_NamespacesIndependent ==
    NpyPassOver =>
        /\ aux.examined <=> params.use_silhouette
        /\ (~aux.examined) => (aux.generator = NoneVal /\ aux.written = {}
                               /\ aux.fs = hist.gen_aux)
        /\ aux.examined =>
            /\ Range(aux.missing_samples) = AuxAbsent(hist.gen_aux)
            /\ (aux.generator # NoneVal) <=> (aux.missing_samples # <<>>)
            /\ aux.generator # NoneVal => aux.generator.list_IDs = aux.missing_samples
            /\ aux.written = {AuxFile(samp) : samp \in AuxAbsent(hist.gen_aux)}
            /\ \A samp \in Range(samples) : AuxFile(samp).name \in aux.fs[ExpOf(samp)]
        /\ \A samp \in Range(samples) \ Range(missing_samples) : \A w \in SampleFiles(samp) :
             w \notin written
        /\ \A samp \in Range(missing_samples) \ AuxAbsent(hist.gen_aux) :
             AuxFile(samp) \notin aux.written

\* a pass with a segmentation model in which one sample missed only its
\* silhouette file and another only its primary files
C21_Witness ==
    /\ NpyPassOver
    /\ params.use_silhouette
    /\ \E samp \in Range(samples) \ Range(missing_samples) : AuxFile(samp) \in aux.written
    /\ \E samp \in Range(missing_samples) :
         AuxFile(samp) \notin aux.written /\ SampleFiles(samp) \subseteq written

\* C26: when _make_data_npy returns, every generator it created has had
\* close_all_readers called.
C26_GeneratorsClosed ==
    NpyPassOver =>
        /\ npy_generator # NoneVal => npy_generator.closed
        /\ aux.generator # NoneVal => aux.generator.closed

\* ------------------------------------------------------------------------
\* COM entries after make_dataset_inference
\* ------------------------------------------------------------------------

Inferred == pc = "inferred" /\ params.is_social_dataset

\* C29: after make_dataset_inference on a social dataset, the sample of an
\* experiment other than 0 has the COM it was loaded with (its first
\* instance), and every key of com3d_dict holds the COM vector of one
\* instance of one frame of one loaded experiment.
C29_SplitKeepsOtherExperiments ==
    Inferred =>
        /\ \A sample \in Range(samples) :
             ExpOf(sample) # 0 =>
                com3d_dict[sample] \in {hist.com_loaded[sample],
                                        Column(hist.com_loaded[sample], 0)}
        /\ \A key \in DOMAIN com3d_dict :
             \E k \in 1..Len(params.experiment), f \in {Frame(i) : i \in FrameIdx},
                i \in 0..(params.n_instances - 1) :
                com3d_dict[key] = ComVector(InferenceCom(params.experiment[k], f, i))

==============================================================================
